---- MODULE Spec2Model ----
(***************************************************************************)
(* Long-form memory system: the persistent store (memory_storage.py), the  *)
(* retrieval engine (memory_retriever.py), the pattern extractor           *)
(* (memory_extractor.py) and the session orchestrator                      *)
(* (long_form_memory.py).                                                  *)
(*                                                                         *)
(* Representation.  A text (Python str) is a sequence of one-character     *)
(* strings.  A score is a double, computed as IEEE 754 arithmetic computes *)
(* it; a confidence is kept in hundredths (85 = 0.85) and is the double of *)
(* that literal where it enters a score.  An Optional[int] is NoTurn for  *)
(* None and Turn(t) for the int t; None is NoMetadata for the metadata and *)
(* NoEmbedding for the embedding.                                          *)
(***************************************************************************)
EXTENDS Integers, Sequences, FiniteSets, TLC

VARIABLES
    table,        \* rows of the SQLite table `memories`, in rowid order
    embeddings,   \* MemoryStorage.embeddings: memory_id -> vector
    turn_count,   \* LongFormMemorySystem.turn_count
    history,      \* LongFormMemorySystem.history
    perf_metrics, \* LongFormMemorySystem.perf_metrics (the two totals)
    retriever,    \* MemoryRetriever.embedding_model and .max_results
    clock,        \* the last reading of the wall clock (datetime.now())
    conn,         \* MemoryStorage.conn: "open" until close()
    last          \* the last call made and what it returned

vars == <<table, embeddings, turn_count, history, perf_metrics, retriever, clock, conn,
          last>>

(***************************************************************************)
(* Bounds of the model.                                                    *)
(***************************************************************************)
MaxTurn == 3        \* process_turn is called at most MaxTurn times between resets
MaxAccess == 2      \* no access_count is taken above MaxAccess
MaxRows == 3        \* the table holds at most MaxRows rows
MaxTopK == 2        \* max_results is 1..MaxTopK
MaxClock == 8       \* the clock is followed for MaxClock microseconds from an instant

(***************************************************************************)
(* Text.                                                                   *)
(***************************************************************************)
UpperCase == <<"A","B","C","D","E","F","G","H","I","J","K","L","M","N","O","P","Q","R","S","T","U","V","W","X","Y","Z">>
LowerCase == <<"a","b","c","d","e","f","g","h","i","j","k","l","m","n","o","p","q","r","s","t","u","v","w","x","y","z">>
Digits == <<"0","1","2","3","4","5","6","7","8","9">>

Range(s) == {s[i] : i \in DOMAIN s}

\* the function f with a value computed for each argument, once
Computed(f) == f @@ <<>>

UpperSet == Range(UpperCase)
LowerSet == Range(LowerCase)
DigitSet == Range(Digits)

\* the lower-case letter of each upper-case letter
LowerOf == Computed([c \in UpperSet |-> LowerCase[CHOOSE i \in DOMAIN UpperCase : UpperCase[i] = c]])

\* str.lower(), one character
LowerChar(c) == IF c \in UpperSet THEN LowerOf[c] ELSE c

\* str.lower()
Lower(t) == [i \in DOMAIN t |-> LowerChar(t[i])]

\* the class \w of re, on the characters used
WordChars == UpperSet \cup LowerSet \cup DigitSet \cup {"_"}

IsWordChar(c) == c \in WordChars

\* the class \s of re and the blanks of str.split() and str.strip(), among the
\* ASCII characters: space, \t, \n, \v, \f, \r and the separators \x1c..\x1f
Spaces == {" ", "\t", "\n", "", "\f", "\r", "", "", "", ""}

IsSpace(c) == c \in Spaces

RECURSIVE SplitAt(_, _, _, _)
SplitAt(t, i, cur, acc) ==
    IF i > Len(t)
    THEN IF cur = <<>> THEN acc ELSE Append(acc, cur)
    ELSE IF IsSpace(t[i])
         THEN SplitAt(t, i + 1, <<>>, IF cur = <<>> THEN acc ELSE Append(acc, cur))
         ELSE SplitAt(t, i + 1, Append(cur, t[i]), acc)

\* str.split() with no separator: the maximal runs of non-blank characters
Split(t) == SplitAt(t, 1, <<>>, <<>>)

\* the stopwords of MemoryRetriever._tokenize
stopwords ==
    { <<"t","h","e">>, <<"a">>, <<"a","n">>, <<"a","n","d">>, <<"o","r">>, <<"b","u","t">>, <<"i","n">>, <<"o","n">>, <<"a","t">>,
      <<"t","o">>, <<"f","o","r">>, <<"o","f">>, <<"w","i","t","h">>, <<"b","y">>, <<"f","r","o","m">>, <<"i","s">>, <<"a","r","e">>, <<"w","a","s">>, <<"w","e","r","e">> }

\* MemoryRetriever._tokenize: punctuation to blanks, split, drop the stopwords
_tokenize(text) ==
    LET clean == [i \in DOMAIN text |->
                    IF IsWordChar(text[i]) \/ IsSpace(text[i]) THEN text[i] ELSE " "]
        words == Split(clean)
    IN  SelectSeq(words, LAMBDA w : Lower(w) \notin stopwords)

Min(a, b) == IF a <= b THEN a ELSE b
Max(a, b) == IF a >= b THEN a ELSE b

(***************************************************************************)
(* Natural numbers of any size.  A number is the sequence of its digits in *)
(* base Limb, the lowest first, with no zero at the end: 0 is <<>>.  The   *)
(* digits and the products of two digits stay below 2^31.                  *)
(***************************************************************************)
\* the number of binary digits of a digit: the product of two digits has 28
\* of the 31 binary digits of an integer
LimbBits == (31 - 3) \div 2

Limb == 2 ^ LimbBits

Digit(a, i) == IF i \in DOMAIN a THEN a[i] ELSE 0

\* the place of the highest digit of a that is not 0
RECURSIVE TopFrom(_, _)
TopFrom(a, i) == IF i = 0 THEN 0 ELSE IF a[i] # 0 THEN i ELSE TopFrom(a, i - 1)

TopOf(a) == TopFrom(a, Len(a))

\* a without the zeros at its end
Trim(a) == SubSeq(a, 1, TopOf(a))

\* the number n, 0 <= n < 2^31
BigOf(n) == Trim(<<n % Limb, (n \div Limb) % Limb, n \div (Limb * Limb)>>)

\* the integer of a number below 2^31
IntOfBig(a) == Digit(a, 1) + Limb * Digit(a, 2) + Limb * Limb * Digit(a, 3)

Longer(a, b) == IF Len(a) < Len(b) THEN Len(b) ELSE Len(a)

\* the digits of a + b from digit i on, with the carry from the digits below
RECURSIVE AddFrom(_, _, _, _, _)
AddFrom(a, b, i, n, d) ==
    IF i > n THEN <<d>>
    ELSE <<d % Limb>> \o AddFrom(a, b, i + 1, n, Digit(a, i + 1) + Digit(b, i + 1) + (d \div Limb))

\* a + b
BigAdd(a, b) == Trim(AddFrom(a, b, 1, Longer(a, b), Digit(a, 1) + Digit(b, 1)))

\* the digits of a - b from digit i on: d is digit i plus Limb, less what
\* the digits below borrow
RECURSIVE SubFrom(_, _, _, _)
SubFrom(a, b, i, d) ==
    IF i > Len(a) THEN <<>>
    ELSE <<d % Limb>>
         \o SubFrom(a, b, i + 1, Digit(a, i + 1) - Digit(b, i + 1) + Limb - (IF d < Limb THEN 1 ELSE 0))

\* a - b, for a >= b
BigSub(a, b) == Trim(SubFrom(a, b, 1, Digit(a, 1) - Digit(b, 1) + Limb))

\* a < b
BigLess(a, b) ==
    IF Len(a) # Len(b) THEN Len(a) < Len(b)
    ELSE \E i \in DOMAIN a : a[i] < b[i] /\ \A j \in (i + 1)..Len(a) : a[j] = b[j]

\* a * k, for 0 <= k <= Limb: the low halves of the products of the digits
\* plus their high halves one digit up
BigTimes(a, k) ==
    BigAdd([i \in DOMAIN a |-> (a[i] * k) % Limb],
           <<0>> \o [i \in DOMAIN a |-> (a[i] * k) \div Limb])

RECURSIVE SumFrom(_, _)
SumFrom(s, i) == IF i > Len(s) THEN 0 ELSE s[i] + SumFrom(s, i + 1)

\* what a * b has at digit k before the carries: the sum of the products
\* a[i] * b[j] with i + j = k + 1, below 2^31 when a or b has at most 7 digits
Column(a, b, k) == SumFrom([i \in 1..Len(a) |-> a[i] * Digit(b, k + 1 - i)], 1)

Columns(a, b) == [k \in 1..(Len(a) + Len(b)) |-> Column(a, b, k)]

Carried(cols) ==
    BigAdd([k \in DOMAIN cols |-> cols[k] % Limb],
           <<0>> \o [k \in DOMAIN cols |-> cols[k] \div Limb])

\* a * b
BigMul(a, b) == IF a = <<>> \/ b = <<>> THEN <<>> ELSE Carried(Columns(a, b))

\* the quotient and the remainder of the digits i.. of a by k, given those
\* of the digits above
OverStep(above, digit, k) ==
    [q |-> <<(above.r * Limb + digit) \div k>> \o above.q,
     r |-> (above.r * Limb + digit) % k]

RECURSIVE OverFrom(_, _, _)
OverFrom(a, k, i) ==
    IF i > Len(a) THEN [q |-> <<>>, r |-> 0]
    ELSE OverStep(OverFrom(a, k, i + 1), a[i], k)

\* floor(a / k), for 0 < k < 2^17
BigOver(a, k) == Trim(OverFrom(a, k, 1).q)

\* the number of binary digits of n
RECURSIVE Bits(_)
Bits(n) == IF n = 0 THEN 0 ELSE 1 + Bits(n \div 2)

\* the number of binary digits of a
BigBits(a) == IF a = <<>> THEN 0 ELSE LimbBits * (Len(a) - 1) + Bits(a[Len(a)])

\* n zeros
Zeros(n) == [i \in 1..n |-> 0]

\* a * k for a power k of 2 below Limb
Doubled(a, k) ==
    [i \in 1..(Len(a) + 1) |->
        ((Digit(a, i) * k) % Limb) + ((Digit(a, i - 1) * k) \div Limb)]

\* a * 2^n
ShiftLeft(a, n) ==
    IF a = <<>> THEN <<>>
    ELSE Trim(Zeros(n \div LimbBits) \o Doubled(a, 2 ^ (n % LimbBits)))

\* floor(a / k) for the digits of a from digit w + 1 on and a power k of 2
\* below Limb
Halved(a, w, k) ==
    [i \in 1..(Len(a) - w) |->
        (a[i + w] \div k) + (Digit(a, i + w + 1) % k) * (Limb \div k)]

\* floor(a / 2^n)
ShiftRight(a, n) ==
    IF n \div LimbBits >= Len(a) THEN <<>>
    ELSE Trim(Halved(a, n \div LimbBits, 2 ^ (n % LimbBits)))

\* binary digit n of a (digit 0 is the lowest)
BitOf(a, n) == (Digit(a, (n \div LimbBits) + 1) \div (2 ^ (n % LimbBits))) % 2

\* the n lowest binary digits of a are 0
LowZero(a, n) ==
    /\ \A i \in 1..(n \div LimbBits) : Digit(a, i) = 0
    /\ Digit(a, (n \div LimbBits) + 1) % (2 ^ (n % LimbBits)) = 0

\* 2 q + 1
TwicePlusOne(q) == IF q = <<>> THEN <<1>> ELSE [ShiftLeft(q, 1) EXCEPT ![1] = @ + 1]

\* one step of the long division: the divisor times 2^i goes into what is
\* left or not
DivStep(sofar, shifted) ==
    IF BigLess(sofar.r, shifted) THEN [q |-> ShiftLeft(sofar.q, 1), r |-> sofar.r]
    ELSE [q |-> TwicePlusOne(sofar.q), r |-> BigSub(sofar.r, shifted)]

\* the steps for the binary digits hi down to lo of the quotient, the upper
\* half of them first
RECURSIVE DivFrom(_, _, _, _)
DivFrom(b, hi, lo, sofar) ==
    IF sofar.r = <<>> THEN [q |-> ShiftLeft(sofar.q, hi + 1 - lo), r |-> <<>>]
    ELSE IF hi = lo THEN DivStep(sofar, ShiftLeft(b, lo))
    ELSE DivFrom(b, ((hi + lo) \div 2), lo, DivFrom(b, hi, ((hi + lo) \div 2) + 1, sofar))

\* quotient and remainder of a by b > 0
BigDivMod(a, b) ==
    IF BigLess(a, b) THEN [q |-> <<>>, r |-> a]
    ELSE DivFrom(b, BigBits(a) - BigBits(b), 0, [q |-> <<>>, r |-> a])

\* one step of the square root: with binary digit i set the square grows
\* by step = 2^(i+1) root + 2^(2i), which fits into what is left or not
RootStep(sofar, i, step) ==
    IF BigLess(sofar.r, step) THEN sofar
    ELSE [root |-> BigAdd(sofar.root, ShiftLeft(<<1>>, i)), r |-> BigSub(sofar.r, step)]

RECURSIVE RootFrom(_, _, _)
RootFrom(hi, lo, sofar) ==
    IF sofar.r = <<>> THEN sofar
    ELSE IF hi = lo
    THEN RootStep(sofar, lo, BigAdd(ShiftLeft(sofar.root, lo + 1), ShiftLeft(<<1>>, 2 * lo)))
    ELSE RootFrom(((hi + lo) \div 2), lo, RootFrom(hi, ((hi + lo) \div 2) + 1, sofar))

\* floor(sqrt(a)) and what is left of a
BigRoot(a) == RootFrom((BigBits(a) + 1) \div 2, 0, [root |-> <<>>, r |-> a])

(***************************************************************************)
(* Python's float, numpy's float64: an IEEE 754 double.  The double        *)
(* man * 2^exp (negated when neg) is [neg, man, exp] with man a natural    *)
(* number below 2^53; 0.0 has man = <<>>.  Every operation returns the     *)
(* double nearest to the exact result, the even one of two at the same     *)
(* distance, and inf beyond the largest double.  inf and nan have man =     *)
(* <<1>> and an exp above that of every number: 1024 and 1025.              *)
(***************************************************************************)
Precision == 52 + 1
MinExp == 0 - 1074

Double(neg, man, exp) == [neg |-> neg, man |-> man, exp |-> exp]

Zero == Double(FALSE, <<>>, 0)

\* float('inf'), float('nan')
Infinity == Double(FALSE, <<1>>, 1024)
NaN == Double(FALSE, <<1>>, 1025)

IsNaN(x) == x.exp = 1025
IsInf(x) == x.exp = 1024
IsFinite(x) == x.exp < 1024

\* inf or -inf
Inf(neg) == Double(neg, <<1>>, 1024)

\* a result of 2^1024 or more is inf: it has Precision binary digits
Overflowed(d) == IF d.exp + Precision > 1024 THEN Inf(d.neg) ELSE d

\* the binary digits cut off are more than half of the last one kept, or
\* half of it with the last one kept odd
RoundsUp(n, cut, sticky) ==
    /\ BitOf(n, cut - 1) = 1
    /\ sticky \/ ~LowZero(n, cut - 1) \/ BitOf(n, cut) = 1

\* q, or q + 1
Raised1(q, up) == IF up THEN BigAdd(q, <<1>>) ELSE q

\* n without its cut lowest binary digits, rounded
Rounded(n, cut, sticky) == Raised1(ShiftRight(n, cut), RoundsUp(n, cut, sticky))

\* the double man * 2^exp, for man of at most Precision + 1 binary digits
Packed(neg, man, exp) ==
    IF man = <<>> THEN Zero
    ELSE IF BigBits(man) > Precision THEN Double(neg, ShiftRight(man, 1), exp + 1)
    ELSE Double(neg, man, exp)

\* the number of binary digits to cut off n * 2^exp: it keeps Precision
\* digits, fewer where the last digit would be below 2^MinExp
CutAt(over, least) == IF over > least THEN over ELSE least

CutOf(n, exp) == CutAt(BigBits(n) - Precision, MinExp - exp)

\* n * 2^exp with cut binary digits cut off n, or -cut zeros put under it
RoundAt(neg, n, exp, sticky, cut) ==
    IF cut <= 0 THEN Double(neg, ShiftLeft(n, 0 - cut), exp + cut)
    ELSE Packed(neg, Rounded(n, cut, sticky), exp + cut)

\* the double nearest to (n + f) * 2^exp, where 0 <= f < 1 and sticky tells
\* whether f > 0 (n has more than Precision digits then)
Round(neg, n, exp, sticky) ==
    IF n = <<>> THEN Zero ELSE Overflowed(RoundAt(neg, n, exp, sticky, CutOf(n, exp)))

IsZero(x) == x.man = <<>>

\* float(n)
FromInt(n) == Round(n < 0, BigOf(IF n < 0 THEN 0 - n ELSE n), 0, FALSE)

\* x * y with inf or nan among the two: nan for nan and for inf * 0
MulSpecial(x, y) ==
    IF IsNaN(x) \/ IsNaN(y) \/ IsZero(x) \/ IsZero(y) THEN NaN ELSE Inf(x.neg # y.neg)

\* x * y
FMul(x, y) ==
    IF IsFinite(x) /\ IsFinite(y)
    THEN Round(x.neg # y.neg, BigMul(x.man, y.man), x.exp + y.exp, FALSE)
    ELSE MulSpecial(x, y)

\* the man of x when the exponent is exp <= x.exp
Aligned(x, exp) == ShiftLeft(x.man, x.exp - exp)

\* a - b or b - a with its sign, for numbers with the signs given
Difference(neg, a, b, exp) ==
    IF BigLess(a, b) THEN Round(~neg, BigSub(b, a), exp, FALSE)
    ELSE IF a = b THEN Zero
    ELSE Round(neg, BigSub(a, b), exp, FALSE)

\* the sum of two numbers with the exponent exp
SumAt(x, y, exp) ==
    IF x.neg = y.neg
    THEN Round(x.neg, BigAdd(Aligned(x, exp), Aligned(y, exp)), exp, FALSE)
    ELSE Difference(x.neg, Aligned(x, exp), Aligned(y, exp), exp)

\* x + y with inf or nan among the two: nan for nan and for inf - inf
AddSpecial(x, y) ==
    IF IsNaN(x) \/ IsNaN(y) \/ (IsInf(x) /\ IsInf(y) /\ x.neg # y.neg) THEN NaN
    ELSE IF IsInf(x) THEN x ELSE y

\* x + y
FAdd(x, y) ==
    IF ~(IsFinite(x) /\ IsFinite(y)) THEN AddSpecial(x, y)
    ELSE IF IsZero(x) THEN y
    ELSE IF IsZero(y) THEN x
    ELSE SumAt(x, y, IF x.exp < y.exp THEN x.exp ELSE y.exp)

\* the quotient of x.man * 2^k by y.man, rounded
Quotient(x, y, k, qr) ==
    Round(x.neg # y.neg, qr.q, x.exp - k - y.exp, qr.r # <<>>)

\* the quotient taken with k more binary digits
QuotientAt(x, y, k) == Quotient(x, y, k, BigDivMod(ShiftLeft(x.man, k), y.man))

\* x / y with inf or nan among the two: nan for nan and for inf / inf, 0.0
\* for a number over inf
DivSpecial(x, y) ==
    IF IsNaN(x) \/ IsNaN(y) \/ (IsInf(x) /\ IsInf(y)) THEN NaN
    ELSE IF IsInf(x) THEN Inf(x.neg # y.neg) ELSE Zero

\* x / y, y # 0
FDiv(x, y) ==
    IF ~(IsFinite(x) /\ IsFinite(y)) THEN DivSpecial(x, y)
    ELSE IF IsZero(x) THEN Zero
    ELSE QuotientAt(x, y, IF Precision + 3 + BigBits(y.man) > BigBits(x.man)
                          THEN Precision + 3 + BigBits(y.man) - BigBits(x.man)
                          ELSE 0)

\* the root of n * 2^exp for an even exp, rounded
RootOf(exp, found) == Round(FALSE, found.root, exp \div 2, found.r # <<>>)

\* the root taken with k more binary digits
RootAt(x, k) == RootOf(x.exp - k, BigRoot(ShiftLeft(x.man, k)))

\* the number of binary digits that make the root exact enough
RootDigits(x) ==
    IF 2 * Precision + 4 > BigBits(x.man) THEN 2 * Precision + 4 - BigBits(x.man) ELSE 0

\* math.sqrt(x), x >= 0: inf for inf, nan for nan
FSqrt(x) ==
    IF IsZero(x) \/ ~IsFinite(x) THEN x
    ELSE RootAt(x, RootDigits(x) + ((x.exp - RootDigits(x)) % 2))

\* |x| < |y| for two numbers that are not 0: a double is kept with Precision
\* binary digits, or with exp = MinExp, so the larger exp is the larger number
Smaller(x, y) == x.exp < y.exp \/ (x.exp = y.exp /\ BigLess(x.man, y.man))

\* x < y, which is false of nan; inf has the largest exp
FLess(x, y) ==
    IF IsNaN(x) \/ IsNaN(y) THEN FALSE
    ELSE IF IsZero(x) THEN ~IsZero(y) /\ ~y.neg
    ELSE IF IsZero(y) THEN x.neg
    ELSE IF x.neg # y.neg THEN x.neg
    ELSE IF x.neg THEN Smaller(y, x) ELSE Smaller(x, y)

\* the double of the literal n / d, as 0.85 is that of 85 / 100
FloatOf(n, d) == FDiv(FromInt(n), FromInt(d))

(***************************************************************************)
(* numpy.exp.  A number in [0, 2^12) with FracBits binary digits after the *)
(* point is the natural number of its 2^-FracBits.                         *)
(***************************************************************************)
FracBits == 7 * LimbBits

\* 1.0
FixedOne == ShiftLeft(<<1>>, FracBits)

\* floor(2^FracBits ln 2)
Ln2 == <<3680, 7739, 10994, 3961, 8007, 8575, 11356>>

\* the term r^(n+1) / (n+1)! after t = r^n / n!
TermAfter(t, r, n) == BigOver(ShiftRight(BigMul(t, r), FracBits), n + 1)

\* the term t = r^n / n! put with those added (n even) or those taken away,
\* and the term after it
WithTerm(sum, r, n) ==
    [t |-> TermAfter(sum.t, r, n),
     plus |-> IF n % 2 = 0 THEN BigAdd(sum.plus, sum.t) ELSE sum.plus,
     minus |-> IF n % 2 = 0 THEN sum.minus ELSE BigAdd(sum.minus, sum.t)]

\* the terms lo..hi of 1 - r + r^2/2! - r^3/3! + .., the lower half first;
\* the terms after one below 2^-FracBits count as 0
RECURSIVE ExpTerms(_, _, _, _)
ExpTerms(r, lo, hi, sum) ==
    IF sum.t = <<>> THEN sum
    ELSE IF lo = hi THEN WithTerm(sum, r, lo)
    ELSE ExpTerms(r, ((lo + hi) \div 2) + 1, hi, ExpTerms(r, lo, (lo + hi) \div 2, sum))

Series(sum) == BigSub(sum.plus, sum.minus)

\* e^-r for 0 <= r < 1: no term after r^FracBits / FracBits! reaches
\* 2^-FracBits
ExpSeries(r) ==
    Series(ExpTerms(r, 0, FracBits, [t |-> FixedOne, plus |-> <<>>, minus |-> <<>>]))

\* |x| for a double below 2^12
Fixed(x) ==
    IF x.exp + FracBits >= 0 THEN ShiftLeft(x.man, x.exp + FracBits)
    ELSE ShiftRight(x.man, 0 - (x.exp + FracBits))

\* for a = q ln 2 + r: e^-a is 2^-q e^-r, and e^a is 2^(q+1) e^-(ln 2 - r)
ExpOf(neg, parts) ==
    Round(FALSE, ExpSeries(IF neg THEN parts.r ELSE BigSub(Ln2, parts.r)),
          (IF neg THEN 0 - IntOfBig(parts.q) ELSE 1 + IntOfBig(parts.q)) - FracBits, TRUE)

\* the double nearest to e^x, 0.0 and inf beyond the doubles, nan for nan
ExpNearest(x) ==
    IF IsZero(x) THEN FromInt(1)
    ELSE IF IsNaN(x) THEN x
    ELSE IF x.exp + BigBits(x.man) > 11 THEN (IF x.neg THEN Zero ELSE Infinity)
    ELSE ExpOf(x.neg, BigDivMod(Fixed(x), Ln2))

\* the arguments -decay * turns_ago, from the overflow of exp to its underflow, at
\* which the exp of the C library of the build returns the double above the
\* nearest one
ExpAbove ==
    { Double(FALSE, <<12105, 15471, 2997, 1358>>, 0 - 43), Double(FALSE, <<9038, 5300, 4985, 1333>>, 0 - 43),
      Double(FALSE, <<6024, 12247, 5984, 1317>>, 0 - 43), Double(FALSE, <<11261, 13484, 4260, 1201>>, 0 - 43),
      Double(FALSE, <<781, 4383, 11596, 1159>>, 0 - 43), Double(FALSE, <<14072, 10228, 253, 1152>>, 0 - 43),
      Double(FALSE, <<6894, 14601, 4739, 1067>>, 0 - 43), Double(FALSE, <<11953, 3512, 1050, 1042>>, 0 - 43),
      Double(FALSE, <<4252, 545, 3128, 1041>>, 0 - 43), Double(FALSE, <<13358, 10076, 4678, 2035>>, 0 - 44),
      Double(FALSE, <<4078, 11230, 4442, 1882>>, 0 - 44), Double(FALSE, <<408, 9002, 3967, 1776>>, 0 - 44),
      Double(FALSE, <<11230, 6490, 16322, 1680>>, 0 - 44), Double(FALSE, <<1520, 4902, 15381, 1601>>, 0 - 44),
      Double(FALSE, <<16037, 4985, 8773, 1595>>, 0 - 44), Double(FALSE, <<9201, 14129, 9397, 1590>>, 0 - 44),
      Double(FALSE, <<10380, 14260, 3040, 1510>>, 0 - 44), Double(FALSE, <<7104, 1153, 16148, 1232>>, 0 - 44),
      Double(FALSE, <<10097, 466, 6123, 1193>>, 0 - 44), Double(FALSE, <<4173, 15828, 10241, 2045>>, 0 - 45),
      Double(FALSE, <<13390, 686, 16169, 2031>>, 0 - 45), Double(FALSE, <<11093, 14412, 14999, 2012>>, 0 - 45),
      Double(FALSE, <<7953, 9767, 8949, 1923>>, 0 - 45), Double(FALSE, <<12792, 15256, 12890, 1834>>, 0 - 45),
      Double(FALSE, <<2112, 89, 10259, 1698>>, 0 - 45), Double(FALSE, <<104, 1468, 8264, 1490>>, 0 - 45),
      Double(FALSE, <<1352, 5830, 12808, 1330>>, 0 - 45), Double(FALSE, <<1284, 1599, 14195, 1236>>, 0 - 45),
      Double(FALSE, <<16074, 2222, 16376, 1172>>, 0 - 45), Double(FALSE, <<2139, 456, 11301, 1161>>, 0 - 45),
      Double(FALSE, <<11691, 16226, 14181, 2036>>, 0 - 46), Double(FALSE, <<4508, 13972, 15387, 1894>>, 0 - 46),
      Double(FALSE, <<6695, 8535, 16276, 1708>>, 0 - 46), Double(FALSE, <<13851, 10422, 1740, 1175>>, 0 - 46),
      Double(FALSE, <<11156, 12016, 1116, 1833>>, 0 - 48), Double(FALSE, <<9300, 8970, 1069, 1248>>, 0 - 48),
      Double(TRUE, <<2317, 12782, 2002, 1114>>, 0 - 50), Double(TRUE, <<11481, 13290, 5845, 1481>>, 0 - 50),
      Double(TRUE, <<10905, 5216, 7497, 1166>>, 0 - 48), Double(TRUE, <<9164, 508, 3843, 1753>>, 0 - 47),
      Double(TRUE, <<11959, 10139, 12522, 1445>>, 0 - 46), Double(TRUE, <<2076, 2852, 608, 1688>>, 0 - 46),
      Double(TRUE, <<8262, 7544, 765, 1790>>, 0 - 46), Double(TRUE, <<6978, 5945, 15242, 1072>>, 0 - 45),
      Double(TRUE, <<1457, 7298, 12880, 1088>>, 0 - 45), Double(TRUE, <<9211, 10999, 1622, 1445>>, 0 - 45),
      Double(TRUE, <<6312, 16284, 1062, 1648>>, 0 - 45), Double(TRUE, <<13935, 1766, 13267, 1743>>, 0 - 45),
      Double(TRUE, <<7953, 9767, 4853, 1750>>, 0 - 45), Double(TRUE, <<5384, 6569, 5135, 1875>>, 0 - 45),
      Double(TRUE, <<9966, 15015, 11152, 1885>>, 0 - 45), Double(TRUE, <<618, 11938, 6159, 1032>>, 0 - 44),
      Double(TRUE, <<8483, 7350, 15662, 1073>>, 0 - 44), Double(TRUE, <<377, 2008, 12957, 1259>>, 0 - 44),
      Double(TRUE, <<2154, 3953, 16022, 1289>>, 0 - 44), Double(TRUE, <<498, 6973, 5462, 1319>>, 0 - 44),
      Double(TRUE, <<13264, 5478, 7071, 1525>>, 0 - 44), Double(TRUE, <<3544, 7020, 13905, 1591>>, 0 - 44),
      Double(TRUE, <<10270, 6165, 10952, 1651>>, 0 - 44), Double(TRUE, <<9657, 854, 11145, 1672>>, 0 - 44),
      Double(TRUE, <<2909, 7969, 9168, 1730>>, 0 - 44), Double(TRUE, <<99, 11225, 8055, 1736>>, 0 - 44),
      Double(TRUE, <<6595, 13694, 10268, 1791>>, 0 - 44), Double(TRUE, <<2028, 8745, 8972, 1909>>, 0 - 44),
      Double(TRUE, <<10029, 12619, 11605, 1965>>, 0 - 44), Double(TRUE, <<7869, 2039, 15855, 1094>>, 0 - 43),
      Double(TRUE, <<10029, 12619, 7509, 1099>>, 0 - 43), Double(TRUE, <<10685, 5410, 3864, 1146>>, 0 - 43),
      Double(TRUE, <<4713, 10281, 8155, 1180>>, 0 - 43), Double(TRUE, <<2857, 7235, 2988, 1245>>, 0 - 43),
      Double(TRUE, <<8173, 9573, 12582, 1250>>, 0 - 43), Double(TRUE, <<13484, 5284, 12752, 1285>>, 0 - 43),
      Double(TRUE, <<11822, 1677, 4032, 1301>>, 0 - 43), Double(TRUE, <<2385, 629, 15976, 1337>>, 0 - 43) }

\* those at which it returns the double below the nearest one
ExpBelow ==
    { Double(FALSE, <<11125, 5022, 3962, 1403>>, 0 - 43), Double(FALSE, <<14213, 8933, 760, 1397>>, 0 - 43),
      Double(FALSE, <<6894, 14601, 7811, 1370>>, 0 - 43), Double(FALSE, <<6286, 15917, 1044, 1362>>, 0 - 43),
      Double(FALSE, <<9830, 6553, 5734, 1351>>, 0 - 43), Double(FALSE, <<3109, 14035, 6847, 1305>>, 0 - 43),
      Double(FALSE, <<15167, 2631, 8994, 1282>>, 0 - 43), Double(FALSE, <<1572, 5636, 6201, 1264>>, 0 - 43),
      Double(FALSE, <<13736, 12084, 6371, 1259>>, 0 - 43), Double(FALSE, <<10816, 7245, 9074, 1233>>, 0 - 43),
      Double(FALSE, <<11890, 5908, 14933, 1221>>, 0 - 43), Double(FALSE, <<4744, 891, 8382, 1220>>, 0 - 43),
      Double(FALSE, <<7916, 12530, 10562, 1176>>, 0 - 43), Double(FALSE, <<5730, 1583, 458, 1146>>, 0 - 43),
      Double(FALSE, <<9940, 14648, 3966, 1123>>, 0 - 43), Double(FALSE, <<1856, 3046, 12335, 1104>>, 0 - 43),
      Double(FALSE, <<6029, 2490, 1073, 1028>>, 0 - 43), Double(FALSE, <<7942, 12897, 12628, 1895>>, 0 - 44),
      Double(FALSE, <<15157, 5761, 14721, 1687>>, 0 - 44), Double(FALSE, <<8215, 13437, 937, 1665>>, 0 - 44),
      Double(FALSE, <<7182, 2254, 9034, 1614>>, 0 - 44), Double(FALSE, <<11555, 7764, 8763, 1502>>, 0 - 44),
      Double(FALSE, <<1468, 4168, 7153, 1376>>, 0 - 44), Double(FALSE, <<11010, 6684, 9617, 1357>>, 0 - 44),
      Double(FALSE, <<15865, 15670, 8039, 1310>>, 0 - 44), Double(FALSE, <<1866, 16300, 2511, 1219>>, 0 - 44),
      Double(FALSE, <<5316, 2338, 378, 1175>>, 0 - 44), Double(FALSE, <<13007, 8435, 955, 1971>>, 0 - 45),
      Double(FALSE, <<8252, 10674, 4444, 1762>>, 0 - 45), Double(FALSE, <<20, 10124, 13121, 1614>>, 0 - 45),
      Double(FALSE, <<11581, 8131, 1613, 1312>>, 0 - 45), Double(FALSE, <<3166, 5012, 15284, 1284>>, 0 - 45),
      Double(FALSE, <<9442, 7675, 14888, 1189>>, 0 - 45), Double(FALSE, <<1966, 11141, 8519, 1136>>, 0 - 45),
      Double(FALSE, <<14659, 15172, 9258, 1061>>, 0 - 45), Double(FALSE, <<4875, 2726, 13592, 1307>>, 0 - 46),
      Double(FALSE, <<6910, 1714, 4341, 1845>>, 0 - 47), Double(FALSE, <<7466, 16048, 1855, 1065>>, 0 - 47),
      Double(TRUE, <<9898, 10784, 251, 1272>>, 0 - 49), Double(TRUE, <<14255, 12797, 5499, 1811>>, 0 - 49),
      Double(TRUE, <<16232, 4424, 6244, 1416>>, 0 - 47), Double(TRUE, <<10360, 4136, 2207, 1108>>, 0 - 46),
      Double(TRUE, <<9479, 4912, 8155, 1200>>, 0 - 46), Double(TRUE, <<4797, 1625, 14562, 1705>>, 0 - 46),
      Double(TRUE, <<15314, 7963, 14829, 2017>>, 0 - 46), Double(TRUE, <<13993, 9127, 15559, 1116>>, 0 - 45),
      Double(TRUE, <<6962, 2448, 14617, 1117>>, 0 - 45), Double(TRUE, <<7927, 9400, 12003, 1247>>, 0 - 45),
      Double(TRUE, <<5651, 482, 3476, 1284>>, 0 - 45), Double(TRUE, <<11681, 2972, 1477, 1316>>, 0 - 45),
      Double(TRUE, <<2616, 13689, 9785, 1472>>, 0 - 45), Double(TRUE, <<9825, 16310, 13717, 1943>>, 0 - 45),
      Double(TRUE, <<4026, 10496, 4406, 2003>>, 0 - 45), Double(TRUE, <<9400, 3811, 933, 1252>>, 0 - 44),
      Double(TRUE, <<14900, 8718, 14749, 1353>>, 0 - 44), Double(TRUE, <<9557, 6013, 13329, 1408>>, 0 - 44),
      Double(TRUE, <<4047, 4236, 1144, 1539>>, 0 - 44), Double(TRUE, <<6459, 5232, 6898, 1690>>, 0 - 44),
      Double(TRUE, <<838, 11744, 4672, 1702>>, 0 - 44), Double(TRUE, <<11141, 8519, 6635, 1791>>, 0 - 44),
      Double(TRUE, <<2684, 1536, 6351, 1826>>, 0 - 44), Double(TRUE, <<8640, 9552, 1434, 1837>>, 0 - 44),
      Double(TRUE, <<3213, 15503, 775, 1843>>, 0 - 44), Double(TRUE, <<10, 13254, 14752, 1846>>, 0 - 44),
      Double(TRUE, <<5483, 1410, 4999, 1879>>, 0 - 44), Double(TRUE, <<9903, 1027, 4556, 1892>>, 0 - 44),
      Double(TRUE, <<10653, 14800, 7733, 1972>>, 0 - 44), Double(TRUE, <<1730, 7838, 5285, 1031>>, 0 - 43),
      Double(TRUE, <<9038, 5300, 12153, 1116>>, 0 - 43), Double(TRUE, <<10527, 3208, 11948, 1162>>, 0 - 43),
      Double(TRUE, <<4933, 10087, 524, 1244>>, 0 - 43), Double(TRUE, <<13752, 15581, 12116, 1257>>, 0 - 43),
      Double(TRUE, <<2590, 13322, 3623, 1273>>, 0 - 43), Double(TRUE, <<12908, 13594, 1091, 1274>>, 0 - 43),
      Double(TRUE, <<8089, 1845, 7200, 1288>>, 0 - 43), Double(TRUE, <<4666, 16174, 6279, 1315>>, 0 - 43),
      Double(TRUE, <<9835, 13180, 15158, 1321>>, 0 - 43), Double(TRUE, <<14958, 16079, 6801, 1333>>, 0 - 43),
      Double(TRUE, <<162, 8829, 6460, 1383>>, 0 - 43), Double(TRUE, <<6149, 7455, 13034, 1390>>, 0 - 43),
      Double(TRUE, <<5945, 11146, 3882, 1412>>, 0 - 43) }

\* the doubles next to a normal double that is no power of 2
Above(d) == Double(d.neg, BigAdd(d.man, <<1>>), d.exp)
Below(d) == Double(d.neg, BigSub(d.man, <<1>>), d.exp)

\* the double the C library returns where d is the nearest to e^x
ExpOfLibrary(x, d) ==
    IF x \in ExpAbove THEN Above(d) ELSE IF x \in ExpBelow THEN Below(d) ELSE d

\* numpy.exp(x), as the C library of the build computes it
np_exp(x) == ExpOfLibrary(x, ExpNearest(x))

(***************************************************************************)
(* str.encode() and hashlib.md5 (RFC 1321).  A byte is its code 0..255; a  *)
(* word of 32 binary digits is the pair of its upper and its lower half,   *)
(* each below 2^16.  The texts here hold ASCII characters only, which      *)
(* UTF-8 encodes as one byte each.                                         *)
(***************************************************************************)
\* the characters with the codes 32..95 (96 is left out)
Printable ==
    <<" ", "!", "\"", "#", "$", "%", "&", "'", "(", ")", "*", "+", ",", "-", ".", "/",
      "0", "1", "2", "3", "4", "5", "6", "7", "8", "9", ":", ";", "<", "=", ">", "?",
      "@">> \o UpperCase \o <<"[", "\\", "]", "^", "_">>

\* those with the codes 97..126
Letters == LowerCase \o <<"{", "|", "}", "~">>

\* those with the codes 9..13 and 28..31
Controls == <<"\t", "\n", "", "\f", "\r">>

Separators == <<"", "", "", "">>

Place(c, chars) == CHOOSE i \in DOMAIN chars : chars[i] = c

\* ord(c)
Codes ==
    Computed([c \in Range(Printable) \cup Range(Letters) \cup Range(Controls) \cup Range(Separators) |->
        IF c \in Range(Printable) THEN 31 + Place(c, Printable)
        ELSE IF c \in Range(Letters) THEN 96 + Place(c, Letters)
        ELSE IF c \in Range(Controls) THEN 8 + Place(c, Controls)
        ELSE 27 + Place(c, Separators)])

Ord(c) == Codes[c]

\* text.encode()
Encode(text) == [i \in DOMAIN text |-> Ord(text[i])]

Half == 2 ^ 16

\* the binary digits of a and b below 16 combined digit by digit, pair(x, y)
\* being the digit (0 or 1) of the digits x and y
RECURSIVE Bitwise(_, _, _, _)
Bitwise(pair, a, b, n) ==
    IF n = 0 THEN 0
    ELSE pair[(a % 2) + 1][(b % 2) + 1] + 2 * Bitwise(pair, a \div 2, b \div 2, n - 1)

Table(pair) == Computed([a \in 1..16 |-> Computed([b \in 1..16 |-> Bitwise(pair, a - 1, b - 1, 4)])])

AndTable == Table(<< <<0, 0>>, <<0, 1>> >>)
OrTable == Table(<< <<0, 1>>, <<1, 1>> >>)
XorTable == Table(<< <<0, 1>>, <<1, 0>> >>)

\* two halves combined, four binary digits at a time
Combined(pairs, a, b) ==
    pairs[(a % 16) + 1][(b % 16) + 1]
    + 16 * pairs[((a \div 16) % 16) + 1][((b \div 16) % 16) + 1]
    + 256 * pairs[((a \div 256) % 16) + 1][((b \div 256) % 16) + 1]
    + 4096 * pairs[(a \div 4096) + 1][(b \div 4096) + 1]

And(x, y) == <<Combined(AndTable, x[1], y[1]), Combined(AndTable, x[2], y[2])>>
Or(x, y) == <<Combined(OrTable, x[1], y[1]), Combined(OrTable, x[2], y[2])>>
Xor(x, y) == <<Combined(XorTable, x[1], y[1]), Combined(XorTable, x[2], y[2])>>
Not(x) == <<Half - 1 - x[1], Half - 1 - x[2]>>

\* x + y modulo 2^32
Plus(x, y) == <<(x[1] + y[1] + ((x[2] + y[2]) \div Half)) % Half, (x[2] + y[2]) % Half>>

\* x rotated left by s < 16 binary digits
Turned(x, s) ==
    << (x[1] % (2 ^ (16 - s))) * (2 ^ s) + (x[2] \div (2 ^ (16 - s))),
       (x[2] % (2 ^ (16 - s))) * (2 ^ s) + (x[1] \div (2 ^ (16 - s))) >>

\* x rotated left by s < 32 binary digits
RotateLeft(x, s) == IF s >= 16 THEN Turned(<<x[2], x[1]>>, s - 16) ELSE Turned(x, s)

\* the shift of each step and floor(2^32 |sin(i + 1)|)
ShiftOf ==
    <<7, 12, 17, 22, 7, 12, 17, 22, 7, 12, 17, 22, 7, 12, 17, 22,
      5, 9, 14, 20, 5, 9, 14, 20, 5, 9, 14, 20, 5, 9, 14, 20,
      4, 11, 16, 23, 4, 11, 16, 23, 4, 11, 16, 23, 4, 11, 16, 23,
      6, 10, 15, 21, 6, 10, 15, 21, 6, 10, 15, 21, 6, 10, 15, 21>>

SineOf ==
    <<<<55146, 42104>>, <<59591, 46934>>, <<9248, 28891>>, <<49597, 52974>>,
      <<62844, 4015>>, <<18311, 50730>>, <<43056, 17939>>, <<64838, 38145>>,
      <<27008, 39128>>, <<35652, 63407>>, <<65535, 23473>>, <<35164, 55230>>,
      <<27536, 4386>>, <<64920, 29075>>, <<42617, 17294>>, <<18868, 2081>>,
      <<63006, 9570>>, <<49216, 45888>>, <<9822, 23121>>, <<59830, 51114>>,
      <<54831, 4189>>, <<580, 5203>>, <<55457, 59009>>, <<59347, 64456>>,
      <<8673, 52710>>, <<49975, 2006>>, <<62677, 3463>>, <<17754, 5357>>,
      <<43491, 59653>>, <<64751, 41976>>, <<26479, 729>>, <<36138, 19594>>,
      <<65530, 14658>>, <<34673, 63105>>, <<28061, 24866>>, <<64997, 14348>>,
      <<42174, 59972>>, <<19422, 53161>>, <<63163, 19296>>, <<48831, 48240>>,
      <<10395, 32454>>, <<60065, 10234>>, <<54511, 12421>>, <<1160, 7429>>,
      <<55764, 53305>>, <<59099, 39397>>, <<8098, 31992>>, <<50348, 22117>>,
      <<62505, 8772>>, <<17194, 65431>>, <<43924, 9127>>, <<64659, 41017>>,
      <<25947, 22979>>, <<36620, 52370>>, <<65519, 62589>>, <<34180, 24017>>,
      <<28584, 32335>>, <<65068, 59104>>, <<41729, 17172>>, <<19976, 4513>>,
      <<63315, 32386>>, <<48442, 62005>>, <<10967, 53947>>, <<60294, 54161>>>>

\* the functions F, G, H and I of the four rounds
Mixed(i, b, c, d) ==
    IF i < 16 THEN Or(And(b, c), And(Not(b), d))
    ELSE IF i < 32 THEN Or(And(b, d), And(c, Not(d)))
    ELSE IF i < 48 THEN Xor(Xor(b, c), d)
    ELSE Xor(c, Or(b, Not(d)))

\* the word of the block that step i takes
WordAt(i) ==
    IF i < 16 THEN i
    ELSE IF i < 32 THEN (5 * i + 1) % 16
    ELSE IF i < 48 THEN (3 * i + 5) % 16
    ELSE (7 * i) % 16

\* word g of a block of 64 bytes, the lowest byte first
WordOf(block, g) ==
    <<block[4 * g + 4] * 256 + block[4 * g + 3], block[4 * g + 2] * 256 + block[4 * g + 1]>>

\* what step i adds to b before the rotation
Fed(s, i, block) ==
    Plus(Plus(Mixed(i, s[2], s[3], s[4]), s[1]), Plus(SineOf[i + 1], WordOf(block, WordAt(i))))

\* step i on the state <<a, b, c, d>>
Md5Step(s, i, block) ==
    <<s[4], Plus(s[2], RotateLeft(Fed(s, i, block), ShiftOf[i + 1])), s[2], s[3]>>

Only(set) == CHOOSE x \in set : TRUE

\* the steps lo..hi: the upper half of them on the state t that the lower
\* half leaves
RECURSIVE Md5Steps(_, _, _, _)
Md5Steps(s, lo, hi, block) ==
    IF lo = hi THEN Md5Step(s, lo, block)
    ELSE Only({ Md5Steps(t, ((lo + hi) \div 2) + 1, hi, block) :
                    t \in {Md5Steps(s, lo, (lo + hi) \div 2, block)} })

Sum4(s, t) == <<Plus(s[1], t[1]), Plus(s[2], t[2]), Plus(s[3], t[3]), Plus(s[4], t[4])>>

\* the state after one more block
Md5Block(s, block) == Sum4(s, Md5Steps(s, 0, 63, block))

\* the bytes 0x80 0 .. 0 and the length in binary digits, the lowest byte
\* first, that fill up the last block (for less than 8192 bytes)
Padding(n) ==
    <<128>> \o [i \in 1..((119 - n) % 64) |-> 0]
            \o <<(8 * n) % 256, (8 * n) \div 256, 0, 0, 0, 0, 0, 0>>

Padded(bytes) == bytes \o Padding(Len(bytes))

RECURSIVE Md5Blocks(_, _, _)
Md5Blocks(s, padded, from) ==
    IF from > Len(padded) THEN s
    ELSE Only({ Md5Blocks(t, padded, from + 64) :
                    t \in {Md5Block(s, SubSeq(padded, from, from + 63))} })

Md5Init == << <<26437, 8961>>, <<61389, 43913>>, <<39098, 56574>>, <<4146, 21622>> >>

\* the state after all the bytes
Md5State(bytes) == Md5Blocks(Md5Init, Padded(bytes), 1)

HexDigits == <<"0", "1", "2", "3", "4", "5", "6", "7", "8", "9", "a", "b", "c", "d", "e", "f">>

\* the two hex digits of a byte
HexOfByte(b) == <<HexDigits[(b \div 16) + 1], HexDigits[(b % 16) + 1]>>

\* the hex digits of a word, the lowest byte first
HexOfWord(x) ==
    HexOfByte(x[2] % 256) \o HexOfByte(x[2] \div 256)
    \o HexOfByte(x[1] % 256) \o HexOfByte(x[1] \div 256)

\* hashlib.md5(text.encode()).hexdigest()[:8]
Md5Hex8(text) == HexOfWord(Md5State(Encode(text))[1])

(***************************************************************************)
(* memory_model.py                                                         *)
(***************************************************************************)
\* MemoryType
PREFERENCE == "preference"
FACT == "fact"
ENTITY == "entity"
CONSTRAINT == "constraint"
COMMITMENT == "commitment"
INSTRUCTION == "instruction"

all_types == <<PREFERENCE, FACT, ENTITY, CONSTRAINT, COMMITMENT, INSTRUCTION>>

\* Memory.last_accessed_turn, an Optional[int]: None, or an int (any int: the
\* code takes the turn it is given)
NoTurn == [none |-> TRUE, turn |-> 0]

Turn(t) == [none |-> FALSE, turn |-> t]

\* None, for Memory.embedding
NoEmbedding == [present |-> FALSE, vec |-> <<>>]

Embedding(v) == [present |-> TRUE, vec |-> v]

\* Memory.metadata: None, or a dict given by its set of <<key, value>> entries;
\* a value is a str, a list, a tuple or a set, given by its items (strings)
NoMetadata == [kind |-> "none", entries |-> {}]

Dict(entries) == [kind |-> "dict", entries |-> entries]

Value(t, items) == [t |-> t, items |-> items]

\* dataclass Memory
Memory(memory_id, type, key, value, source_turn, confidence, created_at, last_accessed_turn, access_count, embedding, metadata) ==
    [ memory_id |-> memory_id, type |-> type, key |-> key, value |-> value,
      source_turn |-> source_turn, confidence |-> confidence,
      created_at |-> created_at, last_accessed_turn |-> last_accessed_turn,
      access_count |-> access_count, embedding |-> embedding,
      metadata |-> metadata ]

\* dataclass ConversationTurn
ConversationTurn(turn_id, user_message, assistant_message, timestamp, extracted_memories, retrieved_memories) ==
    [ turn_id |-> turn_id, user_message |-> user_message,
      assistant_message |-> assistant_message, timestamp |-> timestamp,
      extracted_memories |-> extracted_memories,
      retrieved_memories |-> retrieved_memories ]

(***************************************************************************)
(* json, as far as MemoryStorage uses it.                                  *)
(***************************************************************************)
\* bool(x) of a metadata value: None and the empty dict are false
Truthy(metadata) == metadata.kind = "dict" /\ metadata.entries # {}

\* json.dumps raises TypeError on a set
Serializable(metadata) == \A e \in metadata.entries : e[2].t # "set"

\* a JSON array is written for a list and for a tuple alike
JsonValue(v) == IF v.t = "tuple" THEN Value("list", v.items) ELSE v

\* json.dumps(dict): the JSON text, given by the members of its object
json_dumps(metadata) ==
    [null |-> FALSE, members |-> {<<e[1], JsonValue(e[2])>> : e \in metadata.entries}]

\* SQL NULL in the metadata column
NullText == [null |-> TRUE, members |-> {}]

\* json.loads(text): an object reads back as a dict, an array as a list
json_loads(text) == Dict(text.members)

(***************************************************************************)
(* memory_storage.py.  The store is the table (durable) and the embeddings *)
(* dict (volatile).                                                        *)
(***************************************************************************)
\* the order of two texts as SQLite's BINARY collation compares them: by the
\* first byte that differs, a text before those it starts
RECURSIVE TextLess(_, _, _)
TextLess(a, b, i) ==
    IF i > Len(a) THEN i <= Len(b)
    ELSE IF i > Len(b) THEN FALSE
    ELSE IF a[i] = b[i] THEN TextLess(a, b, i + 1)
    ELSE Ord(a[i]) < Ord(b[i])

\* the ids in the order of the primary-key index on memory_id
RECURSIVE InsertById(_, _)
InsertById(sorted, id) ==
    IF sorted = <<>> THEN <<id>>
    ELSE IF TextLess(id, Head(sorted), 1) THEN <<id>> \o sorted
    ELSE <<Head(sorted)>> \o InsertById(Tail(sorted), id)

RECURSIVE SortById(_)
SortById(ids) ==
    IF ids = <<>> THEN <<>>
    ELSE InsertById(SortById(Tail(ids)), Head(ids))

\* dict with no key
EmptyDict == [k \in {} |-> <<>>]

\* d[k] = v
DictPut(d, k, v) == [x \in DOMAIN d \cup {k} |-> IF x = k THEN v ELSE d[x]]

\* Row with the access statistics started afresh
RowReset(memory, meta_json) ==
    [ memory_id |-> memory.memory_id, type |-> memory.type, key |-> memory.key,
      value |-> memory.value, source_turn |-> memory.source_turn,
      confidence |-> memory.confidence, created_at |-> memory.created_at,
      last_accessed_turn |-> NoTurn, access_count |-> 0, metadata |-> meta_json,
      active |-> TRUE ]

\* the row INSERT OR REPLACE writes (lines 65-82): active is always 1
Row(memory, meta_json) ==
    [ memory_id |-> memory.memory_id, type |-> memory.type, key |-> memory.key,
      value |-> memory.value, source_turn |-> memory.source_turn,
      confidence |-> memory.confidence, created_at |-> memory.created_at,
      last_accessed_turn |-> memory.last_accessed_turn,
      access_count |-> memory.access_count, metadata |-> meta_json,
      active |-> TRUE ]

\* the rows of tab whose memory_id is id (none or one: memory_id is the primary key)
RowsOf(tab, id) == SelectSeq(tab, LAMBDA r : r.memory_id = id)

\* INSERT OR REPLACE: the row of that id, if any, is deleted and the new row
\* gets the next rowid
InsertOrReplace(tab, row) ==
    Append(SelectSeq(tab, LAMBDA r : r.memory_id # row.memory_id), row)

\* MemoryStorage.save: [ok, table, embeddings]
save(tab, emb, memory) ==
    IF Truthy(memory.metadata) /\ ~Serializable(memory.metadata)
    THEN [ok |-> FALSE, table |-> tab, embeddings |-> emb]
    ELSE LET meta_json == IF Truthy(memory.metadata)
                          THEN json_dumps(memory.metadata)
                          ELSE NullText
         IN  [ ok |-> TRUE,
               table |-> InsertOrReplace(tab, Row(memory, meta_json)),
               embeddings |-> IF memory.embedding.present
                              THEN DictPut(emb, memory.memory_id, memory.embedding.vec)
                              ELSE emb ]

\* MemoryStorage.save_batch: [saved, table, embeddings]
RECURSIVE save_batch_from(_, _, _, _)
RECURSIVE save_batch_rest(_, _, _)
save_batch_from(tab, emb, memories, saved) ==
    IF memories = <<>>
    THEN [saved |-> saved, table |-> tab, embeddings |-> emb]
    ELSE save_batch_rest(save(tab, emb, Head(memories)), Tail(memories), saved)

\* a save_batch that gives up at the first save that fails
save_batch_stop(r, memories, saved) ==
    IF r.ok
    THEN save_batch_from(r.table, r.embeddings, memories, saved + 1)
    ELSE [saved |-> saved, table |-> r.table, embeddings |-> r.embeddings]

\* the rest of the batch after one save returned r
save_batch_rest(r, memories, saved) ==
    save_batch_from(r.table, r.embeddings, memories,
                    IF r.ok THEN saved + 1 ELSE saved)

save_batch(tab, emb, memories) == save_batch_from(tab, emb, memories, 0)

\* what get returns: None, or a Memory
NotFound == [found |-> FALSE, memory |-> <<>>]
Found(m) == [found |-> TRUE, memory |-> m]

\* lines 118-130 of get: the Memory of a row; the embedding comes from the dict
MemoryOfRow(row, emb) ==
    Memory(row.memory_id, row.type, row.key, row.value, row.source_turn,
           row.confidence, row.created_at, row.last_accessed_turn,
           row.access_count,
           IF row.memory_id \in DOMAIN emb
           THEN Embedding(emb[row.memory_id])
           ELSE NoEmbedding,
           IF ~row.metadata.null THEN json_loads(row.metadata) ELSE NoMetadata)

\* cursor.fetchone() of get: None without a row, else the first row's Memory
FetchOne(rows, emb) ==
    IF rows = <<>> THEN NotFound ELSE Found(MemoryOfRow(rows[1], emb))

\* MemoryStorage.get
get(tab, emb, memory_id) ==
    FetchOne(SelectSeq(tab, LAMBDA r : r.memory_id = memory_id /\ r.active), emb)

\* if mem: results.append(mem)
Fetched(mem) == IF mem.found THEN <<mem.memory>> ELSE <<>>

\* the memories get finds for the ids, in their order (None dropped)
RECURSIVE FetchEach(_, _, _)
FetchEach(tab, emb, ids) ==
    IF ids = <<>> THEN <<>>
    ELSE Fetched(get(tab, emb, Head(ids))) \o FetchEach(tab, emb, Tail(ids))

IdsOf(rows) == [i \in DOMAIN rows |-> rows[i].memory_id]

\* the ids SELECT memory_id FROM memories WHERE active = 1 returns: SQLite reads
\* the table in rowid order
ActiveIds(tab) == IdsOf(SelectSeq(tab, LAMBDA r : r.active))

\* lines 138-143 of get_all: the ids its SELECT returns.  Without the WHERE
\* the query has no ORDER BY and SQLite answers it from the primary-key
\* index, in the order of the id texts
SelectIds(tab, active_only) ==
    IF active_only THEN ActiveIds(tab) ELSE SortById(IdsOf(tab))

\* MemoryStorage.get_all, lines 145-150: the memories get finds for the ids
\* the SELECT returned
get_all(tab, emb, ids) == FetchEach(tab, emb, ids)

\* mark_accessed setting access_count = 1
mark_accessed_once(tab, memory_id, turn_num) ==
    [i \in DOMAIN tab |->
        IF tab[i].memory_id = memory_id
        THEN [tab[i] EXCEPT !.last_accessed_turn = Turn(turn_num), !.access_count = 1]
        ELSE tab[i]]

\* mark_accessed that also sets active = 1
mark_accessed_activating(tab, memory_id, turn_num) ==
    [i \in DOMAIN tab |->
        IF tab[i].memory_id = memory_id
        THEN [tab[i] EXCEPT !.last_accessed_turn = Turn(turn_num),
                            !.access_count = @ + 1,
                            !.active = TRUE]
        ELSE tab[i]]

\* MemoryStorage.mark_accessed: the table after the UPDATE (it returns True)
mark_accessed(tab, memory_id, turn_num) ==
    [i \in DOMAIN tab |->
        IF tab[i].memory_id = memory_id
        THEN [tab[i] EXCEPT !.last_accessed_turn = Turn(turn_num),
                            !.access_count = @ + 1]
        ELSE tab[i]]

\* deactivate by DELETE
deactivate_by_delete(tab, memory_id) ==
    SelectSeq(tab, LAMBDA r : r.memory_id # memory_id)

\* MemoryStorage.deactivate: the table after the UPDATE (it returns True)
deactivate(tab, memory_id) ==
    [i \in DOMAIN tab |->
        IF tab[i].memory_id = memory_id
        THEN [tab[i] EXCEPT !.active = FALSE]
        ELSE tab[i]]

\* the rows WHERE active = 1
ActiveRows(tab) == SelectSeq(tab, LAMBDA r : r.active)

\* get_stats counting the deactivated rows too
get_stats_of_all(tab, emb, average) ==
    [ total_memories |-> Len(tab),
      by_type |-> [t \in {tab[i].type : i \in DOMAIN tab} |->
                      Cardinality({i \in DOMAIN tab : tab[i].type = t})],
      average_confidence |-> average,
      vector_store_size |-> Cardinality(DOMAIN emb) ]

\* SELECT type, COUNT(*) ... GROUP BY type, as a dict: the types of the rows
\* and the number of rows of each
CountByType(rows) ==
    [t \in {rows[i].type : i \in DOMAIN rows} |->
        Cardinality({i \in DOMAIN rows : rows[i].type = t})]

RECURSIVE SumOfConfidence(_)
SumOfConfidence(rows) ==
    IF rows = <<>> THEN 0 ELSE Head(rows).confidence + SumOfConfidence(Tail(rows))

\* round(AVG(confidence) or 0, 3), in thousandths: the values it can have.
\* AVG returns the double nearest to what SQLite's summation of the stored
\* doubles gives, and round() rounds that double: to the nearest thousandth
\* of the mean, and when the mean of the confidences lies halfway between two
\* thousandths to whichever side the double fell on, which the hundredths of
\* the model do not tell
AverageConfidence(rows) ==
    IF rows = <<>> THEN {0}
    ELSE LET n == 10 * SumOfConfidence(rows)
             d == Len(rows)
         IN  IF 2 * (n % d) = d THEN {n \div d, (n \div d) + 1}
             ELSE IF 2 * (n % d) > d THEN {(n \div d) + 1}
             ELSE {n \div d}

\* MemoryStorage.get_stats; average is what round(avg_conf, 3) returned, one
\* of AverageConfidence(ActiveRows(tab))
get_stats(tab, emb, average) ==
    [ total_memories |-> Len(ActiveRows(tab)),
      by_type |-> CountByType(ActiveRows(tab)),
      average_confidence |-> average,
      vector_store_size |-> Cardinality(DOMAIN emb) ]

(***************************************************************************)
(* re, as far as MemoryExtractor uses it.  A pattern is a sequence of      *)
(* items and the capture groups over them:                                 *)
(*   Alt(<<t1, .., tn>>)   (?:t1|..|tn); an empty last text makes it (..)? *)
(*   Rep(class, min, greedy)   class{min,} (greedy) or class{min,}? (lazy) *)
(*   Term                  (?:\.|$|,)                                      *)
(* A group <<a, b>> captures what items a..b matched.                      *)
(***************************************************************************)
Alt(alts) == [k |-> "alt", alts |-> alts, class |-> "", min |-> 0, greedy |-> TRUE]
Lit(text) == Alt(<<text>>)
Rep(class, min, greedy) ==
    [k |-> "rep", alts |-> <<>>, class |-> class, min |-> min, greedy |-> greedy]
Term == [k |-> "term", alts |-> <<>>, class |-> "", min |-> 0, greedy |-> TRUE]

Pattern(items, groups) == [items |-> items, groups |-> groups]

\* c is in the character class
InClass(c, class) ==
    CASE class = "any"         -> c # "\n"                          \* .
      [] class = "lower"       -> c \in LowerSet                    \* [a-z]
      [] class = "lower_space" -> c \in LowerSet \/ c = " "         \* [a-z ]
      [] class = "digit"       -> c \in DigitSet                    \* [0-9]
      [] class = "space"       -> IsSpace(c)                        \* \s

\* text[i:].startswith(lit)
StartsWith(text, i, lit) ==
    /\ i + Len(lit) - 1 <= Len(text)
    /\ \A j \in DOMAIN lit : text[i + j - 1] = lit[j]

RECURSIVE RunLength(_, _, _)
RunLength(text, i, class) ==
    IF i <= Len(text) /\ InClass(text[i], class)
    THEN 1 + RunLength(text, i + 1, class)
    ELSE 0

\* The backtracking match of items k.. at position i: the positions at which
\* the items k, k+1, .. start and the position after the last, or <<>>.
RECURSIVE MatchFrom(_, _, _, _)
RECURSIVE MatchRep(_, _, _, _, _)
RECURSIVE TryAlts(_, _, _, _, _)
RECURSIVE TryRep(_, _, _, _, _, _)

\* the positions of a match whose first item starts at i and whose other
\* items match at rest; without rest, the next attempt
OrElse(i, rest, other) == IF rest # <<>> THEN <<i>> \o rest ELSE other

MatchFrom(text, items, k, i) ==
    IF k > Len(items) THEN <<i>>
    ELSE CASE items[k].k = "alt" -> TryAlts(text, items, k, i, 1)
           [] items[k].k = "rep" ->
                MatchRep(text, items, k, i, RunLength(text, i, items[k].class))
           [] items[k].k = "term" ->
                OrElse(i, IF i <= Len(text) /\ text[i] \in {".", ","}
                          THEN MatchFrom(text, items, k + 1, i + 1)
                          ELSE IF i = Len(text) + 1
                                  \/ (i = Len(text) /\ text[i] = "\n")
                          THEN MatchFrom(text, items, k + 1, i)
                          ELSE <<>>,
                       <<>>)

\* a repetition that can take up to run characters: greedy from the longest,
\* lazy from the shortest
MatchRep(text, items, k, i, run) ==
    IF run < items[k].min THEN <<>>
    ELSE IF items[k].greedy
         THEN TryRep(text, items, k, i, run, items[k].min)
         ELSE TryRep(text, items, k, i, items[k].min, run)

\* the alternatives j.. of item k, in their order
TryAlts(text, items, k, i, j) ==
    IF j > Len(items[k].alts) THEN <<>>
    ELSE OrElse(i, IF StartsWith(text, i, items[k].alts[j])
                   THEN MatchFrom(text, items, k + 1, i + Len(items[k].alts[j]))
                   ELSE <<>>,
                TryAlts(text, items, k, i, j + 1))

\* n repetitions of item k, then n one nearer to stop, .., then stop
TryRep(text, items, k, i, n, stop) ==
    OrElse(i, MatchFrom(text, items, k + 1, i + n),
           IF n = stop THEN <<>>
           ELSE TryRep(text, items, k, i, IF n < stop THEN n + 1 ELSE n - 1, stop))

\* the text of group g of a match at the positions pos
Group(text, pos, g) == SubSeq(text, pos[g[1]], pos[g[2] + 1] - 1)

\* re.findall(pattern, text): the groups of the successive leftmost matches;
\* each match is the sequence of its groups' texts
RECURSIVE FindAllFrom(_, _, _)
RECURSIVE FoundAt(_, _, _, _)
FindAllFrom(pattern, text, start) ==
    IF start > Len(text) + 1 THEN <<>>
    ELSE FoundAt(pattern, text, start, MatchFrom(text, pattern.items, 1, start))

\* the search goes on after the match at the positions pos, or one character
\* on without a match or after an empty match
FoundAt(pattern, text, start, pos) ==
    IF pos = <<>> THEN FindAllFrom(pattern, text, start + 1)
    ELSE << [g \in DOMAIN pattern.groups |-> Group(text, pos, pattern.groups[g])] >>
         \o FindAllFrom(pattern, text,
                        IF pos[Len(pos)] = start THEN start + 1 ELSE pos[Len(pos)])

findall(pattern, text) == FindAllFrom(pattern, text, 1)

\* sub in text
RECURSIVE ContainsFrom(_, _, _)
ContainsFrom(text, sub, i) ==
    IF i + Len(sub) - 1 > Len(text) THEN FALSE
    ELSE StartsWith(text, i, sub) \/ ContainsFrom(text, sub, i + 1)

Contains(text, sub) == ContainsFrom(text, sub, 1)

RECURSIVE LStrip(_)
LStrip(t) == IF t # <<>> /\ IsSpace(Head(t)) THEN LStrip(Tail(t)) ELSE t

RECURSIVE RStrip(_)
RStrip(t) ==
    IF t # <<>> /\ IsSpace(t[Len(t)]) THEN RStrip(SubSeq(t, 1, Len(t) - 1)) ELSE t

\* str.strip()
Strip(t) == RStrip(LStrip(t))

\* str.replace(' ', '_')
ReplaceSpaces(t) == [i \in DOMAIN t |-> IF t[i] = " " THEN "_" ELSE t[i]]

\* str(n), n >= 0
RECURSIVE Decimal(_)
Decimal(n) ==
    IF n < 10 THEN <<Digits[n + 1]>>
    ELSE Decimal(n \div 10) \o <<Digits[(n % 10) + 1]>>

\* ' '.join(parts)
RECURSIVE Join(_)
Join(parts) ==
    IF Len(parts) = 0 THEN <<>>
    ELSE IF Len(parts) = 1 THEN parts[1]
    ELSE parts[1] \o <<" ">> \o Join(Tail(parts))

(***************************************************************************)
(* memory_extractor.py.  The clock counts the microseconds since           *)
(* 2026-01-01T00:00:00, and each datetime.now() of a call reads it.  It    *)
(* moves between the readings as the pace of the call says.                *)
(***************************************************************************)
\* the clock of a call: it moves wait microseconds before the call; steps[n]
\* is what it moves from reading number n - 1 of datetime.now() to reading
\* number n (from the start of the call to the first reading), and each is
\* what it moves to every reading after those of steps
Pace(wait, steps, each) == [wait |-> wait, steps |-> steps, each |-> each]

\* what the clock moves before reading number n
StepOf(pace, n) == IF n <= Len(pace.steps) THEN pace.steps[n] ELSE pace.each

\* reading number n of a call that finds the clock at clock0
RECURSIVE Reading(_, _, _)
Reading(clock0, pace, n) ==
    IF n = 0 THEN clock0 ELSE Reading(clock0, pace, n - 1) + StepOf(pace, n)

\* the instants at which a call of the model may find the clock: the start,
\* and those around which ids of the model's messages have the same digits
Instants == { 0, 6505, 45367, 47820, 97898 }

\* the readings the model follows the clock to
Followed(now) == \E i \in Instants : i <= now /\ now <= i + MaxClock

\* every reading at the same microsecond
Still == Pace(0, <<>>, 0)

\* every reading a microsecond after the one before
Steady == Pace(0, <<>>, 1)

\* the clock moves on once, before reading number n
StepAt(n) == Pace(0, [i \in 1..n |-> IF i = n THEN 1 ELSE 0], 0)

\* a call that finds the clock at an instant and reads it every microsecond
From(now, instant) == Pace(instant - now, <<>>, 1)

\* such a call held up before reading number n until after a later instant
HeldUp(now, instant, n, later) ==
    Pace(instant - now, [i \in 1..n |-> IF i = n THEN later - instant - n + 2 ELSE 1], 1)

\* the clock moves on between the readings of one memory and those of the
\* next, and not between the two readings of a memory
Uneven == Pace(0, <<0, 0, 1, 0, 1, 0>>, 0)

\* the instants between which a call is held up
HoldUps == { <<6505, 97898>> }

\* the paces of the calls of the model
Paces == { Still, Steady }

\* those of a call that finds the clock at an instant or is held up in
\* between two
PacesFrom(now) ==
    { From(now, i) : i \in { x \in Instants : x > now } }
    \cup { HeldUp(now, p[1], 3, p[2]) : p \in { q \in HoldUps : q[1] > now } }

\* str(n)
Str(n) == IF n < 0 THEN <<"-">> \o Decimal(0 - n) ELSE Decimal(n)

\* n in at least two digits, n in six digits
TwoDigits(n) == IF n < 10 THEN <<"0">> \o Decimal(n) ELSE Decimal(n)

SixDigits(n) == Tail(Decimal(1000000 + n))

\* the fraction of a second in isoformat: left out when it is 0
Fraction(microsecond) ==
    IF microsecond = 0 THEN <<>> ELSE <<".">> \o SixDigits(microsecond)

\* the time of day of isoformat
TimeOfDay(hour, minute, second, microsecond) ==
    TwoDigits(hour) \o <<":">> \o TwoDigits(minute) \o <<":">> \o TwoDigits(second)
    \o Fraction(microsecond)

\* datetime.now().isoformat() at a reading of the clock
isoformat(now) ==
    <<"2","0","2","6","-","0","1","-","0","1","T">>
    \o TimeOfDay((now \div 60000000) \div 60, (now \div 60000000) % 60, (now \div 1000000) % 60,
                 now % 1000000)

\* line 222: unique_str = f"{key}_{turn}_{datetime.now().isoformat()}"
unique_str(key, turn, now) == key \o <<"_">> \o Str(turn) \o <<"_">> \o isoformat(now)

\* lines 223-224 for the text hashed
MadeId(text) == <<"m","e","m","_">> \o Md5Hex8(text)

boring_phrases ==
    << <<"h","o","w"," ","a","r","e"," ","y","o","u">>, <<"h","o","w","'","s"," ","t","h","e"," ","w","e","a","t","h","e","r">>, <<"w","h","a","t","'","s"," ","t","h","e"," ","l","a","t","e","s","t">>,
       <<"t","e","l","l"," ","m","e"," ","a"," ","j","o","k","e">>, <<"w","h","a","t"," ","d","a","y"," ","i","s"," ","i","t">>, <<"w","h","a","t"," ","c","a","n"," ","y","o","u"," ","h","e","l","p">>,
       <<"t","h","a","t","'","s"," ","i","n","t","e","r","e","s","t","i","n","g">>, <<"t","h","a","n","k","s">>, <<"i"," ","s","e","e">>, <<"o","k","a","y">>, <<"s","u","r","e">>,
       <<"c","a","n"," ","y","o","u"," ","e","x","p","l","a","i","n">>, <<"h","e","r","e"," ","t","o"," ","h","e","l","p">> >>

pref_patterns ==
    << Pattern(<<Alt(<<<<"m","y"," ">>, <<"i"," ">>>>), Lit(<<"p","r","e","f","e","r"," ">>), Alt(<<<<"t","o"," ">>, <<>>>>),
                 Rep("any", 1, FALSE), Term>>, << <<4, 4>> >>),
       Pattern(<<Alt(<<<<"a","l","w","a","y","s">>, <<"n","e","v","e","r">>>>), Lit(<<" ">>),
                 Rep("any", 1, FALSE), Term>>, << <<3, 3>> >>),
       Pattern(<<Alt(<<<<"l","a","n","g","u","a","g","e"," ","i","s">>, <<"s","p","e","a","k">>, <<"c","o","m","m","u","n","i","c","a","t","e"," ","i","n">>>>), Lit(<<" ">>),
                 Rep("lower", 1, TRUE)>>, << <<3, 3>> >>) >>

fact_patterns ==
    << Pattern(<<Alt(<<<<"m","y"," ","n","a","m","e"," ","i","s">>, <<"i"," ","a","m">>, <<"i","'","m">>>>), Lit(<<" ">>),
                 Rep("lower_space", 3, TRUE)>>, << <<3, 3>> >>),
       Pattern(<<Alt(<<<<"i"," ","l","i","v","e"," ","i","n">>, <<"i","'","m"," ","f","r","o","m">>, <<"f","r","o","m">>>>), Lit(<<" ">>),
                 Rep("lower_space", 3, TRUE)>>, << <<3, 3>> >>),
       Pattern(<<Alt(<<<<"i"," ","w","o","r","k"," ","a","t">>, <<"w","o","r","k"," ","f","o","r">>>>), Lit(<<" ">>),
                 Rep("lower_space", 3, TRUE)>>, << <<3, 3>> >>),
       Pattern(<<Lit(<<"a","l","l","e","r","g","i","c"," ","t","o"," ">>), Rep("lower", 1, TRUE)>>, << <<2, 2>> >>),
       Pattern(<<Alt(<<<<"i","'","m">>, <<"i"," ","a","m">>>>), Lit(<<" ">>), Alt(<<<<"a"," ">>, <<"a","n"," ">>, <<>>>>),
                 Rep("lower", 1, TRUE), Lit(<<" ">>),
                 Alt(<<<<"e","n","g","i","n","e","e","r">>, <<"d","e","v","e","l","o","p","e","r">>, <<"d","e","s","i","g","n","e","r">>, <<"m","a","n","a","g","e","r">>>>)>>,
               << <<4, 6>> >>) >>

commitment_patterns ==
    << Pattern(<<Alt(<<<<"m","e","e","t","i","n","g">>, <<"c","a","l","l">>, <<"a","p","p","o","i","n","t","m","e","n","t">>>>), Rep("any", 1, FALSE),
                 Alt(<<<<"a","t">>, <<"@">>>>), Lit(<<" ">>), Rep("digit", 1, TRUE),
                 Rep("space", 0, TRUE), Alt(<<<<"a","m">>, <<"p","m">>, <<"A","M">>, <<"P","M">>>>)>>,
               << <<5, 7>> >>),
       Pattern(<<Alt(<<<<"e","v","e","r","y">>, <<"e","a","c","h">>>>), Lit(<<" ">>), Rep("lower", 1, TRUE),
                 Lit(<<"d","a","y">>), Rep("any", 1, FALSE), Rep("digit", 1, TRUE),
                 Rep("space", 0, TRUE), Alt(<<<<"a","m">>, <<"p","m">>, <<"A","M">>, <<"P","M">>>>)>>,
               << <<3, 4>>, <<6, 8>> >>),
       Pattern(<<Lit(<<"b","i","r","t","h","d","a","y">>), Rep("any", 1, FALSE), Lit(<<"o","n"," ">>),
                 Rep("lower", 1, TRUE), Lit(<<" ">>), Rep("digit", 1, TRUE)>>,
               << <<4, 6>> >>) >>

\* val = match if isinstance(match, str) else ' '.join(match)
Joined(found) == [i \in DOMAIN found |-> Join(found[i])]

\* the matches of the patterns of one family, pattern after pattern; a match
\* with several groups is joined with blanks (line 186)
RECURSIVE FamilyMatches(_, _, _)
FamilyMatches(patterns, text, p) ==
    IF p > Len(patterns) THEN <<>>
    ELSE Joined(findall(patterns[p], text)) \o FamilyMatches(patterns, text, p + 1)

\* the matches a family keeps: len(match.strip()) > least
Kept(matches, least) == SelectSeq(matches, LAMBDA m : Len(Strip(m)) > least)

\* match[:20]
First20(match) == SubSeq(match, 1, Min(20, Len(match)))

\* the lines 107-123 of _extract_with_patterns: the turn is skipped
Skipped(user_msg) ==
    \/ Len(Split(user_msg)) < 5
    \/ \E i \in DOMAIN boring_phrases : Contains(Lower(user_msg), boring_phrases[i])

\* the matches a family keeps, with the family's type and the prefix of the
\* key that is hashed
Tagged(type, prefix, matches) ==
    [i \in DOMAIN matches |->
        [type |-> type, hashed |-> prefix \o matches[i], match |-> matches[i]]]

\* lines 126-197: the three families, one after the other
CandidatesIn(text) ==
    Tagged(PREFERENCE, <<"p","r","e","f","_">>, Kept(FamilyMatches(pref_patterns, text, 1), 3))
    \o Tagged(FACT, <<"f","a","c","t","_">>, Kept(FamilyMatches(fact_patterns, text, 1), 2))
    \o Tagged(COMMITMENT, <<"c","o","m","m","i","t","m","e","n","t","_">>,
              Kept(FamilyMatches(commitment_patterns, text, 1), 2))

\* Candidates without the test of lines 107-123
CandidatesUnskipped(user_msg) == CandidatesIn(Lower(user_msg))

\* the candidates of a message, in the order the code appends them: their
\* type, the key that is hashed, and the match
Candidates(user_msg) ==
    IF Skipped(user_msg) THEN <<>> ELSE CandidatesIn(Lower(user_msg))

\* user messages of the model
Messages ==
    { <<"M","y"," ","n","a","m","e"," ","i","s"," ","R","a","j","e","s","h"," ","a","n","d"," ","I"," ","p","r","e","f","e","r"," ","t","o"," ","c","o","m","m","u","n","i","c","a","t","e"," ","i","n"," ","K","a","n","n","a","d","a",".">>,
      <<"H","o","w"," ","a","r","e"," ","y","o","u"," ","d","o","i","n","g"," ","t","o","d","a","y","?">>,
      <<"i"," ","n","e","v","e","r"," ","e","a","t"," ","m","e","a","t",","," ","n","e","v","e","r"," ","e","a","t"," ","m","e","a","t",".">>,
      <<"W","e","l","l"," ","I"," ","w","o","r","k"," ","a","t"," ","a","c","m","e">> }

\* user messages for the extractor: under 5 words with a fact in it, with a
\* stoplisted phrase ("thanks", and "sure" inside "Insure") and a fact in it,
\* casual, with one fact, and with a candidate of each family
ExtractionMessages ==
    { <<"m","y"," ","n","a","m","e"," ","i","s"," ","r","a","j">>,
      <<"T","h","a","n","k","s",","," ","m","y"," ","n","a","m","e"," ","i","s"," ","R","a","j","e","s","h"," ","K","u","m","a","r">>,
      <<"I"," ","w","o","r","k"," ","a","t"," ","I","n","s","u","r","e"," ","C","o","r","p"," ","n","o","w">>,
      <<"H","o","w"," ","a","r","e"," ","y","o","u"," ","d","o","i","n","g"," ","t","o","d","a","y","?">>,
      <<"W","e","l","l"," ","I"," ","w","o","r","k"," ","a","t"," ","a","c","m","e">>,
      <<"m","y"," ","n","a","m","e"," ","i","s"," ","r","a","j","e","s","h",","," ","i"," ","p","r","e","f","e","r"," ","g","r","e","e","n"," ","t","e","a",","," ","c","a","l","l"," ","m","e"," ","a","t"," ","5"," ","p","m">> }

\* messages the extractor skips although a fact pattern matches them: one
\* under 5 words, one with a stoplisted phrase, one with a stoplisted phrase
\* inside a word
SkippedMessages ==
    { <<"m","y"," ","n","a","m","e"," ","i","s"," ","r","a","j">>, <<"T","h","a","n","k","s",","," ","m","y"," ","n","a","m","e"," ","i","s"," ","R","a","j","e","s","h"," ","K","u","m","a","r">>,
      <<"I"," ","w","o","r","k"," ","a","t"," ","I","n","s","u","r","e"," ","C","o","r","p"," ","n","o","w">> }

\* Candidates, computed once for each message of the model
\* memo[key] where memo has the key, else the value computed
Cached(memo, key, value) == IF key \in DOMAIN memo THEN memo[key] ELSE value

CandidateTable == Computed([m \in Messages \cup ExtractionMessages |-> Candidates(m)])

CandidatesOf(user_msg) == Cached(CandidateTable, user_msg, Candidates(user_msg))

\* the confidence of a family, in hundredths
PrefConfidence == 85
FactConfidence == 80
CommitmentConfidence == 75

\* one confidence for every family
ConfidenceOfAnyFamily(type) == FactConfidence

\* the confidence of a family
ConfidenceOf(type) ==
    CASE type = PREFERENCE -> PrefConfidence
      [] type = FACT -> FactConfidence
      [] type = COMMITMENT -> CommitmentConfidence

\* the key of candidate number n (lines 140, 165, 192)
KeyOf(c, n) ==
    CASE c.type = PREFERENCE -> <<"p","r","e","f","e","r","e","n","c","e","_">> \o ReplaceSpaces(First20(c.match))
      [] c.type = FACT -> <<"u","s","e","r","_">> \o ReplaceSpaces(First20(c.match))
      [] c.type = COMMITMENT -> <<"c","o","m","m","i","t","m","e","n","t","_">> \o Decimal(n - 1)

\* the keys hashed for the candidates of messages
KeysOf(msgs) == UNION { { c.hashed : c \in Range(CandidatesOf(m)) } : m \in msgs }

\* the keys hashed for the candidates of the messages of the model
KnownKeys == KeysOf(Messages \cup ExtractionMessages)

\* the readings a call may take before it is found to end too late
KnownReadings == 0..(MaxClock + 5)

\* the keys, turns and readings of the ids kept in the table: the turns of
\* process_turn for the messages of a session, the turns a caller passes for
\* the messages and the answers given to the extractor
KnownStamps ==
    (KeysOf(Messages) \X (1..MaxTurn) \X KnownReadings)
        \cup (KeysOf(ExtractionMessages) \X {0, MaxTurn} \X KnownReadings)

\* the ids of the keys, turns and readings the model meets, computed once
IdTable == Computed([k \in KnownStamps |-> MadeId(unique_str(k[1], k[2], k[3]))])

\* MemoryExtractor._make_memory_id: "mem_" and the first 8 hex digits of the
\* MD5 of "{key}_{turn}_{now}"
_make_memory_id(key, turn, now) ==
    Cached(IdTable, <<key, turn, now>>, MadeId(unique_str(key, turn, now)))

\* lines 141-149, 166-174, 189-197 but for the id and the date, which are
\* read from the clock
Undated(c, n, turn_num) ==
    Memory(<<>>, c.type, KeyOf(c, n), Strip(c.match), turn_num, ConfidenceOf(c.type),
           <<>>, NoTurn, 0, NoEmbedding, NoMetadata)

\* the Memory of candidate number n
MemoryOf(c, n, turn_num, clock0, pace) ==
    [Undated(c, n, turn_num) EXCEPT
        !.memory_id = _make_memory_id(c.hashed, turn_num, Reading(clock0, pace, 2 * n - 1)),
        !.created_at = isoformat(Reading(clock0, pace, 2 * n))]

\* the memories of the candidates, in their order
MemoriesOf(cands, turn_num, clock0, pace) ==
    [n \in DOMAIN cands |-> MemoryOf(cands[n], n, turn_num, clock0, pace)]

\* MemoryExtractor._extract_with_patterns; candidate number n reads the clock
\* for its id (reading 2n-1) and for created_at (reading 2n)
_extract_with_patterns(user_msg, turn_num, clock0, pace) ==
    MemoriesOf(CandidatesOf(user_msg), turn_num, clock0, pace)

\* the llm_client an extractor is made with: None, an object that is false
\* in a test (its __bool__ returns False or its __len__ 0), an object that is
\* true in a test
NoClient == [is_none |-> TRUE, truthy |-> FALSE]

FalsyClient == [is_none |-> FALSE, truthy |-> FALSE]

TruthyClient == [is_none |-> FALSE, truthy |-> TRUE]

Clients == {NoClient, FalsyClient, TruthyClient}

\* MemoryExtractor._call_llm: it raises ValueError when the client is None;
\* with any other client it returns the text "[]" and does not call the
\* client (the call is a TODO)
_call_llm(llm_client) ==
    IF llm_client.is_none
    THEN [raised |-> TRUE, response |-> <<>>]
    ELSE [raised |-> FALSE, response |-> <<"[","]">>]

\* MemoryExtractor._extract_with_llm: the prompt is built and _call_llm is
\* called; the ValueError it raises without a client is caught by the
\* except clause, which returns what the patterns give (no reading of the
\* clock has been made before); the text "[]" it returns otherwise is found
\* by the search for a list and json.loads makes the empty list of it, so
\* the loop of lines 80-93 makes no memory and the call returns an empty list
_extract_with_llm(llm_client, user_msg, turn_num, clock0, pace) ==
    IF _call_llm(llm_client).raised
    THEN _extract_with_patterns(user_msg, turn_num, clock0, pace)
    ELSE <<>>

\* MemoryExtractor.extract_memories: `if use_llm and self.llm_client` tests
\* the client for truth
extract_memories(llm_client, user_msg, turn_num, use_llm, clock0, pace) ==
    IF use_llm /\ llm_client.truthy
    THEN _extract_with_llm(llm_client, user_msg, turn_num, clock0, pace)
    ELSE _extract_with_patterns(user_msg, turn_num, clock0, pace)

(***************************************************************************)
(* The inputs of the model.                                                *)
(***************************************************************************)
\* Memory values a caller saves (created_at is a str the caller chooses)
Sample1 ==
    Memory(<<"m","1">>, FACT, <<"n","a","m","e">>, <<"r","a","j","e","s","h">>, 1, 80, isoformat(0), NoTurn, 0,
           NoEmbedding, NoMetadata)
Sample2 ==
    Memory(<<"m","1">>, PREFERENCE, <<"l","a","n","g","u","a","g","e">>, <<"k","a","n","n","a","d","a">>, 1, 90, isoformat(0), Turn(1), 1,
           Embedding(<<FromInt(1), Zero>>), Dict({}))
Sample3 ==
    Memory(<<"m","2">>, COMMITMENT, <<"c","a","l","l">>, <<"r","a","j","e","s","h"," ","a","t"," ","5"," ","p","m">>, 2, 30, isoformat(1), NoTurn, 0,
           NoEmbedding, Dict({<<"rationale", Value("str", <<"s","t","a","t","e","d">>)>>}))
Sample4 ==
    Memory(<<"m","2">>, FACT, <<"c","i","t","y">>, <<"g","o","a">>, 0, 80, isoformat(1), NoTurn, 0,
           NoEmbedding, Dict({<<"tags", Value("tuple", <<"a", "b">>)>>}))
Sample5 ==
    Memory(<<"m","3">>, ENTITY, <<"m","o","t","h","e","r">>, <<"s","a","r","a","h">>, 1, 80, isoformat(0), NoTurn, 0,
           NoEmbedding, Dict({<<"tags", Value("set", <<"a">>)>>}))

Samples == {Sample1, Sample2, Sample3, Sample4, Sample5}

\* 2.0 ** 600, whose square is beyond the doubles
Huge == Round(FALSE, <<1>>, 600, FALSE)

\* a memory with such a component in its embedding
Sample6 ==
    Memory(<<"m","7">>, FACT, <<"n","a","m","e">>, <<"r","a","j","e","s","h">>, 1, 80, isoformat(0), NoTurn, 0,
           Embedding(<<Huge, Zero>>), NoMetadata)

\* queries
Queries == { <<"w","h","a","t"," ","l","a","n","g","u","a","g","e"," ","d","o"," ","I"," ","s","p","e","a","k">>, <<"R","a","j","e","s","h","?">> }

\* the queries the scores are computed for: the words of the memory, one of
\* its two words, none of them
ScoreQueries == Queries \cup { <<"n","a","m","e"," ","r","a","j","e","s","h">> }

\* the text _keyword_match tokenizes for a memory
MemText(mem) == mem.key \o <<" ">> \o mem.value

\* set(self._tokenize(text.lower()))
WordSet(text) == Range(_tokenize(Lower(text)))

\* half_life of _recency_score
HalfLife == 100

\* the largest access_count the frequency score is computed for
MaxCount == 22

\* the largest turn the recency score is computed at
MaxAge == 2 * HalfLife

\* memories to score: new, hit once or twice, and hit about twenty times;
\* old and recent; of no and of full confidence; with and without a vector
BaseMems ==
    { Memory(<<"m","1">>, FACT, <<"n","a","m","e">>, <<"r","a","j","e","s","h">>, source_turn, confidence, isoformat(0),
             NoTurn, access_count, embedding, NoMetadata) :
        source_turn \in {0, MaxTurn}, confidence \in {0, 100},
        access_count \in {0, 1, 2, 19, 20, 21},
        embedding \in {NoEmbedding, Embedding(<<FromInt(1), Zero>>)} }

\* memories of the confidence 0.8
DefaultMems ==
    { Memory(<<"m","1">>, FACT, <<"n","a","m","e">>, <<"r","a","j","e","s","h">>, 0, 80, isoformat(0),
             NoTurn, access_count, embedding, NoMetadata) :
        access_count \in {0, 20},
        embedding \in {NoEmbedding, Embedding(<<FromInt(1), Zero>>)} }

\* a memory of full confidence and age 0 with a vector and its hits
VectorMem(vec, access_count) == Memory(<<"m","1">>, FACT, <<"n","a","m","e">>, <<"r","a","j","e","s","h">>, 0, 100, isoformat(0), NoTurn, access_count, Embedding(vec), NoMetadata)

\* memories of twenty hits whose vectors have one component, or two, and the
\* memory of the huge vector one hit earlier
VectorMems ==
    {VectorMem(<<Huge, Zero>>, 19)} \cup
    { VectorMem(vec, 20) :
        vec \in { <<FromInt(1), Zero>>,
                  <<Round(FALSE, BigOf(3), 0 - 538, FALSE)>>,
                  <<FloatOf(105, 100), FloatOf(392, 100)>>,
                  <<FromInt(3), FromInt(4)>>,
                  <<Huge, Zero>> } }

ScoreMems == BaseMems \cup DefaultMems \cup VectorMems

\* the turns the scores are computed at
ScoreTurns == { 0, 1, MaxTurn, HalfLife, HalfLife + 1, MaxAge }

\* the memories of the model: those a caller saves and those extracted,
\* these without the id and the date, which no score reads
UndatedOf(cands) == { Undated(cands[n], n, 1) : n \in DOMAIN cands }

KnownMems == Samples \cup UNION { UndatedOf(CandidateTable[msg]) : msg \in Messages }

\* the texts a retrieval is asked for, and the texts of the memories
QueryTexts == Messages \cup SkippedMessages \cup Queries \cup ScoreQueries

MemTexts == { MemText(m) : m \in KnownMems \cup ScoreMems }

KnownConfidences == { m.confidence : m \in KnownMems \cup ScoreMems }

\* current_turn - source_turn, for the turns of the model
KnownAges ==
    ((0 - MaxTurn) - 1)..(MaxTurn + 1)
    \cup { t - m.source_turn : t \in ScoreTurns, m \in {Sample1, Sample3} }
    \cup { t - m.source_turn : t \in {0, HalfLife}, m \in ScoreMems }

\* WordSet, computed once for each text of the model
KnownTexts == QueryTexts \cup MemTexts

WordTable == Computed([t \in KnownTexts |-> WordSet(t)])

WordsOf(text) == Cached(WordTable, text, WordSet(text))

(***************************************************************************)
(* memory_retriever.py.  The embedding model is a collaborator: encode is  *)
(* a function of the query text.  A score is a double; the values the      *)
(* model meets are computed once and kept in tables.                       *)
(***************************************************************************)
\* 1.0
One == FromInt(1)

\* -x
Negative(x) == [x EXCEPT !.neg = ~@ /\ ~IsZero(x) /\ ~IsNaN(x)]

\* min(x, y) and max(x, y) of Python: x, unless y is below or above it
FMin(x, y) == IF FLess(y, x) THEN y ELSE x
FMax(x, y) == IF FLess(x, y) THEN y ELSE x

\* sum(s[:n]): the elements added one after the other
RECURSIVE sum(_, _)
sum(s, n) == IF n = 0 THEN Zero ELSE FAdd(sum(s, n - 1), s[n])

\* the weights of _score_relevance
W_keyword == FloatOf(3, 10)
W_semantic == FloatOf(3, 10)
W_recency == FloatOf(15, 100)
W_frequency == FloatOf(1, 10)
W_confidence == FloatOf(15, 100)

\* lines 69-95: the weights of the factors that apply
weights(semantic) ==
    IF semantic THEN <<W_keyword, W_semantic, W_recency, W_frequency, W_confidence>>
    ELSE <<W_keyword, W_recency, W_frequency, W_confidence>>

\* line 98: total_weight = sum(weights)
total_weight(ws) == sum(ws, Len(ws))

\* line 99: norm_weights = [w / total_weight for w in weights]
norm_weights(ws) == [i \in DOMAIN ws |-> FDiv(ws[i], total_weight(ws))]

NormWeights == Computed([semantic \in BOOLEAN |-> Computed(norm_weights(weights(semantic)))])

\* mem.confidence, kept in hundredths, as the float it is
ConfidenceTable == Computed([c \in KnownConfidences |-> FloatOf(c, 100)])

ConfidenceScore(confidence) == Cached(ConfidenceTable, confidence, FloatOf(confidence, 100))

\* len(overlap) / len(union) for the word sets of the model
Overlaps(words, queries, texts) ==
    { <<Cardinality(words[q] \cap words[m]), Cardinality(words[q] \cup words[m])>> :
        q \in queries, m \in texts } \ { <<0, 0>> }

KnownRatios == Overlaps(WordTable, QueryTexts, MemTexts)

RatioTable == Computed([r \in KnownRatios |-> FloatOf(r[1], r[2])])

Ratio(n, d) == Cached(RatioTable, <<n, d>>, FloatOf(n, d))

\* lines 109-116: 0.0 without words on one side, else overlap over union
Jaccard(query_words, mem_words) ==
    IF query_words = {} \/ mem_words = {} THEN Zero
    ELSE Ratio(Cardinality(query_words \cap mem_words),
               Cardinality(query_words \cup mem_words))

\* MemoryRetriever._keyword_match: Jaccard similarity of the two word sets
_keyword_match(query, mem) == Jaccard(WordsOf(query), WordsOf(MemText(mem)))

\* np.dot of two vectors of n components: the products summed from the first
RECURSIVE DotOf(_, _, _)
DotOf(a, b, n) == IF n = 0 THEN Zero ELSE FAdd(DotOf(a, b, n - 1), FMul(a[n], b[n]))

\* np.dot(a, b)
np_dot(a, b) == DotOf(a, b, Len(a))

\* np.linalg.norm(v): the square root of the dot product of v with itself
np_linalg_norm(v) == FSqrt(np_dot(v, v))

\* lines 135-138: sim = dot / (q_norm * m_norm), then (sim + 1) / 2
Similarity(dot, q_norm, m_norm) ==
    FDiv(FAdd(FDiv(dot, FMul(q_norm, m_norm)), One), FromInt(2))

\* lines 128-138 for two vectors of one length
CosineOf(query_vec, mem_vec) ==
    IF IsZero(np_linalg_norm(query_vec)) \/ IsZero(np_linalg_norm(mem_vec)) THEN Zero
    ELSE Similarity(np_dot(query_vec, mem_vec), np_linalg_norm(query_vec),
                    np_linalg_norm(mem_vec))

\* 3 * 2.0 ** -538, whose square is below the normal doubles
TinyComponent == Round(FALSE, BigOf(3), 0 - 538, FALSE)

\* the vectors of the memories that are scored
MemVectors ==
    { <<FromInt(1), Zero>>, <<TinyComponent>>,
      <<FloatOf(105, 100), FloatOf(392, 100)>>, <<FromInt(3), FromInt(4)>>,
      <<Huge, Zero>> }

\* the vectors the embedding models of the model return for a text
QueryVectors ==
    { <<a, b>> : a, b \in {Zero, One} }
    \cup { <<One>>, <<FloatOf(15, 100), FloatOf(56, 100)>>, <<Negative(One), Zero>>,
           <<Huge, Zero>> }

SemanticTable ==
    Computed([k \in { p \in QueryVectors \X MemVectors : Len(p[1]) = Len(p[2]) } |->
        CosineOf(k[1], k[2])])

\* lines 124-139, with numpy's ValueError on vectors of different lengths
CosineOfVectors(query_vec, mem_vec) ==
    IF Len(query_vec) # Len(mem_vec) THEN Zero
    ELSE Cached(SemanticTable, <<query_vec, mem_vec>>, CosineOf(query_vec, mem_vec))

\* the embedding_model a retriever is constructed with: None, or an object
\* with an encode method, which a test may find true or false
NoModel == [is_none |-> TRUE, truthy |-> FALSE, encoder |-> "none", vec |-> <<>>]

\* a model whose vector tells whether the text mentions a language and a name
WordModel == [is_none |-> FALSE, truthy |-> TRUE, encoder |-> "words", vec |-> <<>>]

\* the same model as an object that a test finds false (its __len__ gives 0)
FalsyModel == [is_none |-> FALSE, truthy |-> FALSE, encoder |-> "words", vec |-> <<>>]

\* a model that returns the vector v for every text
FixedModel(v) == [is_none |-> FALSE, truthy |-> TRUE, encoder |-> "fixed", vec |-> v]

\* the embedding models of the retrievers whose scores are computed
EmbeddingModels ==
    { NoModel, FalsyModel, WordModel, FixedModel(<<One>>),
      FixedModel(<<FloatOf(15, 100), FloatOf(56, 100)>>),
      FixedModel(<<Negative(One), Zero>>),
      FixedModel(<<Huge, Zero>>) }

\* the models and memories of the _score_relevance calls: the memories of
\* no and of full confidence with the model of the system's retriever, those
\* of confidence 0.8 with the model a test finds false, and the memories of
\* every vector with the models of one vector
ScoreCalls(embedding_model) ==
    ({embedding_model} \X BaseMems)
    \cup ({FalsyModel} \X DefaultMems)
    \cup ({ e \in EmbeddingModels : e.encoder = "fixed" } \X VectorMems)

EncodeWords(words) ==
    << IF words \cap {<<"l","a","n","g","u","a","g","e">>, <<"s","p","e","a","k">>, <<"k","a","n","n","a","d","a">>} # {} THEN One ELSE Zero,
       IF words \cap {<<"n","a","m","e">>, <<"r","a","j","e","s","h">>} # {} THEN One ELSE Zero >>

\* embedding_model.encode(query): a vector of one dimension for every text
encode(embedding_model, query) ==
    IF embedding_model.encoder = "words" THEN EncodeWords(WordsOf(query))
    ELSE embedding_model.vec

\* MemoryRetriever._semantic_match: (cosine + 1) / 2; 0.0 for a zero vector and
\* when numpy raises on vectors of different lengths
_semantic_match(query, mem, embedding_model) ==
    IF ~mem.embedding.present \/ embedding_model.is_none THEN Zero
    ELSE CosineOfVectors(encode(embedding_model, query), mem.embedding.vec)

\* decay = 0.693 / half_life
decay == FDiv(FloatOf(693, 1000), FromInt(HalfLife))

\* np.exp(-decay * turns_ago)
ExpDecayTimes(turns_ago) == np_exp(FMul(Negative(decay), FromInt(turns_ago)))

ExpTable == Computed([turns_ago \in KnownAges |-> ExpDecayTimes(turns_ago)])

\* max(0.0, min(1.0, score))
Clamped(score) == FMax(Zero, FMin(One, score))

Recency(turns_ago) == Clamped(Cached(ExpTable, turns_ago, ExpDecayTimes(turns_ago)))

\* _recency_score taking the current turn for the age of the memory
_recency_score_of_turn(mem, current_turn) == Recency(current_turn)

\* MemoryRetriever._recency_score: exp(-decay * turns_ago), clamped to [0, 1]
_recency_score(mem, current_turn) == Recency(current_turn - mem.source_turn)

\* the count of np.log1p(20) in _frequency_score
Saturation == 20

\* np.log1p(n) for n = 1..Saturation, as the C library of the build returns it
Log1p ==
    << Double(FALSE, <<14831, 15336, 9263, 1419>>, 0 - 53),
       Double(FALSE, <<778, 10932, 16039, 1124>>, 0 - 52),
       Double(FALSE, <<14831, 15336, 9263, 1419>>, 0 - 52),
       Double(FALSE, <<3379, 8118, 1055, 1648>>, 0 - 52),
       Double(FALSE, <<8194, 10408, 12479, 1834>>, 0 - 52),
       Double(FALSE, <<6743, 14537, 10026, 1992>>, 0 - 52),
       Double(FALSE, <<11123, 15598, 11043, 1064>>, 0 - 51),
       Double(FALSE, <<779, 10932, 16039, 1124>>, 0 - 51),
       Double(FALSE, <<5398, 11989, 15131, 1178>>, 0 - 51),
       Double(FALSE, <<14156, 7676, 11835, 1227>>, 0 - 51),
       Double(FALSE, <<7805, 13134, 4459, 1272>>, 0 - 51),
       Double(FALSE, <<3153, 11462, 4162, 1313>>, 0 - 51),
       Double(FALSE, <<15272, 7006, 3233, 1351>>, 0 - 51),
       Double(FALSE, <<2079, 9525, 8547, 1386>>, 0 - 51),
       Double(FALSE, <<14831, 15336, 9263, 1419>>, 0 - 51),
       Double(FALSE, <<16250, 2025, 9916, 1450>>, 0 - 51),
       Double(FALSE, <<4486, 10670, 14259, 1479>>, 0 - 51),
       Double(FALSE, <<13100, 6162, 9056, 1507>>, 0 - 51),
       Double(FALSE, <<9105, 11727, 13351, 1533>>, 0 - 51),
       Double(FALSE, <<11953, 4542, 13033, 1558>>, 0 - 51) >>

\* lines 157-162 for an access_count; above Saturation the quotient is above
\* 1.0, which min brings down to 1.0
Frequency(access_count) ==
    IF access_count = 0 THEN FloatOf(1, 10)
    ELSE IF access_count > Saturation THEN One
    ELSE FMin(One, FDiv(Log1p[access_count], Log1p[Saturation]))

FrequencyTable == Computed([n \in 0..Saturation |-> Frequency(n)])

\* MemoryRetriever._frequency_score
_frequency_score(mem) ==
    Cached(FrequencyTable, mem.access_count, Frequency(mem.access_count))

\* lines 69-95: the scores of the factors that apply
scores(mem, query, turn, embedding_model) ==
    << _keyword_match(query, mem) >>
        \o (IF mem.embedding.present /\ embedding_model.truthy
            THEN << _semantic_match(query, mem, embedding_model) >> ELSE << >>)
        \o << _recency_score(mem, turn), _frequency_score(mem), ConfidenceScore(mem.confidence) >>

\* the values a factor takes in the model
FactorValues ==
    Range(RatioTable) \cup Range(SemanticTable) \cup Range(FrequencyTable)
    \cup Range(ConfidenceTable) \cup { Clamped(ExpTable[a]) : a \in KnownAges }

TermTable ==
    Computed([p \in FactorValues \X (Range(NormWeights[TRUE]) \cup Range(NormWeights[FALSE])) |->
        FMul(p[1], p[2])])

\* s * w of line 101
Weighted(s, w) == Cached(TermTable, <<s, w>>, FMul(s, w))

\* line 101: final = sum(s * w for s, w in zip(scores, norm_weights))
final(ss, ws) == sum([i \in DOMAIN ss |-> Weighted(ss[i], ws[i])], Len(ss))

\* lines 98-101 for the scores of four or of five factors
Averaged(ss) == final(ss, NormWeights[Len(ss) = 5])

\* the factors that the age and the count of a memory leave alone
Content(mem, query, embedding_model) ==
    << _keyword_match(query, mem) >>
        \o (IF mem.embedding.present /\ embedding_model.truthy
            THEN << _semantic_match(query, mem, embedding_model) >> ELSE << >>)
        \o << ConfidenceScore(mem.confidence) >>

KnownContents ==
    { Content(m, q, e) : m \in KnownMems, q \in QueryTexts, e \in {NoModel, WordModel} }

\* the scores of a memory with these factors, this recency and this frequency
Completed(c, recency, frequency) ==
    IF Len(c) = 3 THEN <<c[1], c[2], recency, frequency, c[3]>>
    ELSE <<c[1], recency, frequency, c[2]>>

\* the scores of the memories of the model, whatever their age and count
KnownScores ==
    { Completed(c, Recency(a), FrequencyTable[n]) :
        c \in KnownContents, a \in 0..(MaxTurn + 1), n \in 0..(MaxAccess + 1) }
    \cup { scores(c[2], q, t, c[1]) :
            c \in ScoreCalls(NoModel) \cup ScoreCalls(WordModel),
            q \in ScoreQueries, t \in {0, HalfLife} }

AverageTable == Computed([ss \in KnownScores |-> Averaged(ss)])

\* MemoryRetriever._score_relevance: the weighted average of the factors
AverageOf(ss) == Cached(AverageTable, ss, Averaged(ss))

_score_relevance(mem, query, turn, embedding_model) ==
    AverageOf(scores(mem, query, turn, embedding_model))

\* filter_types: None, or a list of types
NoFilter == [none |-> TRUE, types |-> <<>>]
Filter(types) == [none |-> FALSE, types |-> types]

\* s[::-1]
Reversed(s) == [i \in DOMAIN s |-> s[Len(s) + 1 - i]]

\* s with x put behind its first l elements
InsertedAt(s, x, l) == SubSeq(s, 1, l) \o <<x>> \o SubSeq(s, l + 1, Len(s))

\* l + ((r - l) >> 1)
Middle(l, r) == l + ((r - l) \div 2)

\* binarysort of list.sort: the place of x among the elements l + 1..r of an
\* ascending list, found by halving; x goes behind an element it is not below
RECURSIVE Slot(_, _, _, _)
Slot(sorted, x, l, r) ==
    IF l >= r THEN l
    ELSE IF FLess(x.score, sorted[Middle(l, r) + 1].score)
         THEN Slot(sorted, x, l, Middle(l, r))
         ELSE Slot(sorted, x, Middle(l, r) + 1, r)

\* one step of binarysort: x is put in its place
InsertByScore(sorted, x) == InsertedAt(sorted, x, Slot(sorted, x, 0, Len(sorted)))

\* count_run of list.sort: the length of the run at the start of a, of which
\* n >= 2 elements are known; a descending run goes on with an element below
\* the one before it, an ascending run with one that is not
RECURSIVE RunEnd(_, _, _)
RunEnd(a, n, descending) ==
    IF n < Len(a) /\ FLess(a[n + 1].score, a[n].score) = descending
    THEN RunEnd(a, n + 1, descending)
    ELSE n

\* the run at the start of a, in ascending order
RunOf(a, n, descending) ==
    IF descending THEN Reversed(SubSeq(a, 1, n)) ELSE SubSeq(a, 1, n)

\* the elements of a after the first n, put one after the other into sorted
RECURSIVE InsertFrom(_, _, _)
InsertFrom(sorted, a, n) ==
    IF n >= Len(a) THEN sorted
    ELSE InsertFrom(InsertByScore(sorted, a[n + 1]), a, n + 1)

\* the run is found and the rest inserted
SortedFrom(a, n, descending) == InsertFrom(RunOf(a, n, descending), a, n)

\* list.sort(key = score) of a list of fewer than 64 elements, which is one
\* run made longer by binary insertion; the descending run starts with an
\* element above the second
Ascending(a) ==
    IF Len(a) < 2 THEN a
    ELSE SortedFrom(a, RunEnd(a, 2, FLess(a[2].score, a[1].score)),
                    FLess(a[2].score, a[1].score))

\* scored[:n + 1]
TakeOneMore(s, n) == SubSeq(s, 1, Min(n + 1, Len(s)))

\* scored[:n], n >= 0
Take(s, n) == SubSeq(s, 1, Min(n, Len(s)))

RECURSIVE mark_each(_, _, _)
mark_each(tab, mems, turn) ==
    IF mems = <<>> THEN tab
    ELSE mark_each(mark_accessed(tab, Head(mems).memory_id, turn), Tail(mems), turn)

\* lines 39-43 of retrieve: the memories left by the two filters
filtered(all_mems, filter_types, min_confidence) ==
    LET typed == IF ~filter_types.none /\ filter_types.types # <<>>
                 THEN SelectSeq(all_mems, LAMBDA m : m.type \in Range(filter_types.types))
                 ELSE all_mems
    IN  SelectSeq(typed, LAMBDA m : m.confidence >= min_confidence)

\* scored = [(mem, self._score_relevance(mem, query, current_turn)) ...]
Scored(all_mems, query, current_turn, embedding_model) ==
    [i \in DOMAIN all_mems |->
        [mem |-> all_mems[i],
         score |-> _score_relevance(all_mems[i], query, current_turn, embedding_model)]]

\* line 55: scored.sort(key=lambda x: x[1], reverse=True), which reverses the
\* list, sorts it in ascending order and reverses it again; elements of one
\* score keep their order, and the order of a list with a nan score is what
\* the comparisons of the sort make it
Sorted(scored) == Reversed(Ascending(Reversed(scored)))

MemsOf(top) == [i \in DOMAIN top |-> top[i].mem]

\* lines 48-56 of retrieve: score, sort, take the top results
top_mems(all_mems, query, current_turn, embedding_model, max_results) ==
    MemsOf(SelectSeq(Take(Sorted(Scored(all_mems, query, current_turn, embedding_model)),
                          max_results),
                     LAMBDA x : FLess(Zero, x.score)))

\* the results returned and every active row marked
RetrievedMarkingAll(tab, top, current_turn) ==
    [result |-> top,
     table |-> [i \in DOMAIN tab |->
                    IF tab[i].active
                    THEN [tab[i] EXCEPT !.last_accessed_turn = Turn(current_turn),
                                        !.access_count = @ + 1]
                    ELSE tab[i]]]

\* lines 58-62 of retrieve: the results are marked and returned
Retrieved(tab, top, current_turn) ==
    [result |-> top, table |-> mark_each(tab, top, current_turn)]

\* MemoryRetriever.retrieve: [result, table]
retrieve(tab, emb, query, current_turn, filter_types, min_confidence, embedding_model, max_results) ==
    Retrieved(tab,
              top_mems(filtered(get_all(tab, emb, ActiveIds(tab)), filter_types, min_confidence),
                       query, current_turn, embedding_model, max_results),
              current_turn)

(***************************************************************************)
(* long_form_memory.py                                                     *)
(***************************************************************************)
\* LongFormMemorySystem.auto_extract, as constructed by default
auto_extract == TRUE

\* LongFormMemorySystem.retrieve_memories: retrieve at the current turn count
retrieve_memories(tab, emb, turns, query, types, min_conf, rtr) ==
    retrieve(tab, emb, query, turns, types, min_conf,
             rtr.embedding_model, rtr.max_results)

\* the default min_conf of retrieve_memories, in hundredths
DefaultMinConf == 50

\* lines 81-90: the memories extracted, none unless should_extract and auto_extract
Extracted(user_msg, turn_id, should_extract, clock0, pace) ==
    IF should_extract /\ auto_extract
    THEN _extract_with_patterns(user_msg, turn_id, clock0, pace)
    ELSE <<>>

\* lines 101-116: the turn is recorded; what process_turn leaves and returns
Recorded(turn_id, hist, perf, user_msg, assistant_msg, found, new_mems, saved, stamp) ==
    [ table |-> saved.table,
      embeddings |-> saved.embeddings,
      turn_count |-> turn_id,
      history |-> Append(hist, ConversationTurn(turn_id, user_msg, assistant_msg,
                                                isoformat(stamp), IdsOf(new_mems),
                                                IdsOf(found.result))),
      perf_metrics |->
          [ total_extracted |-> perf.total_extracted + saved.saved,
            total_retrieved |-> perf.total_retrieved + 1 ],
      clock |-> stamp,
      result |-> [ turn_id |-> turn_id, extracted_memories |-> new_mems,
                   retrieved_memories |-> found.result ] ]

\* lines 81-99: the memories extracted are saved in the store retrieval left
AfterRetrieval(emb, turn_id, hist, perf, user_msg, assistant_msg, found, new_mems, clock0, pace) ==
    Recorded(turn_id, hist, perf, user_msg, assistant_msg, found, new_mems,
             save_batch(found.table, emb, new_mems),
             Reading(clock0, pace, 2 * Len(new_mems) + 1))

\* LongFormMemorySystem.process_turn; the last reading of the clock is the
\* timestamp of the turn
process_turn(tab, emb, turns, hist, perf, rtr, user_msg, assistant_msg, should_extract, clock0, pace) ==
    AfterRetrieval(emb, turns + 1, hist, perf, user_msg, assistant_msg,
                   retrieve_memories(tab, emb, turns + 1, user_msg, NoFilter,
                                     DefaultMinConf, rtr),
                   Extracted(user_msg, turns + 1, should_extract, clock0, pace),
                   clock0, pace)

(***************************************************************************)
(* More inputs of the model.                                               *)
(***************************************************************************)
\* filter_types and min_confidence of a retrieval: the defaults, an empty list
\* of types, one type, a higher confidence
RetrieveArgs ==
    { [filter_types |-> NoFilter, min_confidence |-> DefaultMinConf],
      [filter_types |-> Filter(<<>>), min_confidence |-> DefaultMinConf],
      [filter_types |-> Filter(<<FACT>>), min_confidence |-> DefaultMinConf],
      [filter_types |-> NoFilter, min_confidence |-> 85] }

\* the turn numbers a caller passes
TurnNumbers == { 0, MaxTurn }

\* the retrievers a system is constructed with: one with an embedding model
\* that returns the best memory, one without that returns up to MaxTopK
Retrievers ==
    { [embedding_model |-> WordModel, max_results |-> 1],
      [embedding_model |-> NoModel, max_results |-> MaxTopK] }

\* the ids a caller may name: those of the rows, and one never saved
KnownIds == Range(IdsOf(table)) \cup { <<"m","9">> }

(***************************************************************************)
(* The state machine.  It starts with a system constructed on a new file;  *)
(* NewSystem constructs one on a file that holds rows.                     *)
(***************************************************************************)
Constructed(retrievers) ==
    /\ table = <<>>
    /\ embeddings = EmptyDict
    /\ turn_count = 0
    /\ history = <<>>
    /\ perf_metrics = [total_extracted |-> 0, total_retrieved |-> 0]
    /\ retriever \in retrievers
    /\ clock = 0
    /\ conn = "open"
    /\ last = [op |-> "init"]

Init == Constructed(Retrievers)

\* a retriever whose embedding model returns a vector with a component whose
\* square is beyond the doubles
OverflowRetriever == [embedding_model |-> FixedModel(<<Huge, Zero>>), max_results |-> MaxTopK]

\* the system constructed with that retriever
InitOverflow == Constructed({OverflowRetriever})

WithinBounds(tab) ==
    /\ Len(tab) <= MaxRows
    /\ \A i \in DOMAIN tab : tab[i].access_count <= MaxAccess

\* a call that ends in sqlite3.ProgrammingError: the connection is closed and
\* the method has no try/except around its use of it
Raised(call) == [op |-> "raised", call |-> call, error |-> "ProgrammingError"]

\* save: `except Exception: return False`, nothing written
SaveFailed(tab, emb) == [ok |-> FALSE, table |-> tab, embeddings |-> emb]

\* storage.save(memory)
Save(memory) ==
    \E r \in {IF conn = "open" THEN save(table, embeddings, memory)
                               ELSE SaveFailed(table, embeddings)} :
        /\ WithinBounds(r.table)
        /\ table' = r.table
        /\ embeddings' = r.embeddings
        /\ last' = [op |-> "save", memory |-> memory, ok |-> r.ok,
                    before |-> RowsOf(table, memory.memory_id)]
        /\ UNCHANGED <<turn_count, history, perf_metrics, retriever, clock, conn>>

\* save_batch: every save of the batch fails on a closed connection
SaveBatchFailed(tab, emb) == [saved |-> 0, table |-> tab, embeddings |-> emb]

\* storage.save_batch(memories)
SaveBatch(memories) ==
    \E r \in {IF conn = "open" THEN save_batch(table, embeddings, memories)
                               ELSE SaveBatchFailed(table, embeddings)} :
        /\ WithinBounds(r.table)
        /\ table' = r.table
        /\ embeddings' = r.embeddings
        /\ last' = [op |-> "save_batch", memories |-> memories, saved |-> r.saved]
        /\ UNCHANGED <<turn_count, history, perf_metrics, retriever, clock, conn>>

\* storage.get(memory_id)
Get(memory_id) ==
    /\ last' = IF conn = "open"
               THEN [op |-> "get", memory_id |-> memory_id,
                     result |-> get(table, embeddings, memory_id)]
               ELSE Raised("get")
    /\ UNCHANGED <<table, embeddings, turn_count, history, perf_metrics, retriever, clock,
                   conn>>

\* storage.get_all(active_only)
GetAll(active_only) ==
    /\ IF conn = "open"
       THEN \E ids \in {SelectIds(table, active_only)} :
                last' = [op |-> "get_all", active_only |-> active_only,
                         result |-> get_all(table, embeddings, ids)]
       ELSE last' = Raised("get_all")
    /\ UNCHANGED <<table, embeddings, turn_count, history, perf_metrics, retriever, clock,
                   conn>>

\* storage.mark_accessed(memory_id, turn_num); on a closed connection the
\* except branch returns False
MarkAccessed(memory_id, turn_num) ==
    \E tab \in {IF conn = "open" THEN mark_accessed(table, memory_id, turn_num)
                                 ELSE table} :
        /\ WithinBounds(tab)
        /\ table' = tab
        /\ last' = [op |-> "mark_accessed", memory_id |-> memory_id,
                    turn_num |-> turn_num, ok |-> (conn = "open")]
        /\ UNCHANGED <<embeddings, turn_count, history, perf_metrics, retriever, clock,
                       conn>>

\* storage.deactivate(memory_id); on a closed connection the except branch
\* returns False
Deactivate(memory_id) ==
    /\ table' = IF conn = "open" THEN deactivate(table, memory_id) ELSE table
    /\ last' = [op |-> "deactivate", memory_id |-> memory_id, ok |-> (conn = "open")]
    /\ UNCHANGED <<embeddings, turn_count, history, perf_metrics, retriever, clock, conn>>

\* storage.get_stats(), which raises on a closed connection
GetStats ==
    /\ \E average \in AverageConfidence(ActiveRows(table)) :
            last' = IF conn = "open"
                    THEN [op |-> "get_stats",
                          stats |-> get_stats(table, embeddings, average)]
                    ELSE Raised("get_stats")
    /\ UNCHANGED <<table, embeddings, turn_count, history, perf_metrics, retriever,
                   clock, conn>>

\* retriever.retrieve(query, current_turn, filter_types, min_confidence); its
\* first statement, storage.get_all, raises on a closed connection
Retrieve(query, current_turn, filter_types, min_confidence) ==
    IF conn = "open"
    THEN \E r \in {retrieve(table, embeddings, query, current_turn, filter_types,
                           min_confidence, retriever.embedding_model,
                           retriever.max_results)} :
            /\ WithinBounds(r.table)
            /\ table' = r.table
            /\ last' = [op |-> "retrieve", query |-> query, current_turn |-> current_turn,
                        filter_types |-> filter_types, min_confidence |-> min_confidence,
                        result |-> r.result]
            /\ UNCHANGED <<embeddings, turn_count, history, perf_metrics, retriever,
                           clock, conn>>
    ELSE /\ last' = Raised("retrieve")
         /\ UNCHANGED <<table, embeddings, turn_count, history, perf_metrics, retriever,
                        clock, conn>>

\* system.retrieve_memories(query, types, min_conf)
RetrieveMemories(query, types, min_conf) ==
    IF conn = "open"
    THEN \E r \in {retrieve_memories(table, embeddings, turn_count, query, types,
                                    min_conf, retriever)} :
            /\ WithinBounds(r.table)
            /\ table' = r.table
            /\ last' = [op |-> "retrieve", query |-> query, current_turn |-> turn_count,
                        filter_types |-> types, min_confidence |-> min_conf,
                        result |-> r.result]
            /\ UNCHANGED <<embeddings, turn_count, history, perf_metrics, retriever,
                           clock, conn>>
    ELSE /\ last' = Raised("retrieve_memories")
         /\ UNCHANGED <<table, embeddings, turn_count, history, perf_metrics, retriever,
                        clock, conn>>

\* system.process_turn(user_msg, assistant_msg, should_extract); on a closed
\* connection the turn is counted (line 61) and the retrieval of line 72 raises
ProcessTurn(user_msg, assistant_msg, should_extract, pace) ==
    /\ turn_count < MaxTurn
    /\ IF conn = "open"
       THEN \E r \in {process_turn(table, embeddings, turn_count, history, perf_metrics,
                                  retriever, user_msg, assistant_msg, should_extract,
                                  clock + pace.wait, pace)} :
                /\ Followed(r.clock)
                /\ WithinBounds(r.table)
                /\ table' = r.table
                /\ embeddings' = r.embeddings
                /\ turn_count' = r.turn_count
                /\ history' = r.history
                /\ perf_metrics' = r.perf_metrics
                /\ clock' = r.clock
                /\ last' = [op |-> "process_turn", result |-> r.result]
                /\ UNCHANGED <<retriever, conn>>
       ELSE /\ turn_count' = turn_count + 1
            /\ last' = Raised("process_turn")
            /\ UNCHANGED <<table, embeddings, history, perf_metrics, retriever, clock,
                           conn>>

\* a reset that empties the store as well
ResetDroppingStore ==
    /\ turn_count' = 0
    /\ history' = <<>>
    /\ perf_metrics' = [total_extracted |-> 0, total_retrieved |-> 0]
    /\ table' = <<>>
    /\ embeddings' = EmptyDict
    /\ last' = [op |-> "reset"]
    /\ UNCHANGED <<retriever, clock, conn>>

\* system.reset()
Reset ==
    /\ turn_count' = 0
    /\ history' = <<>>
    /\ perf_metrics' = [total_extracted |-> 0, total_retrieved |-> 0]
    /\ last' = [op |-> "reset"]
    /\ UNCHANGED <<table, embeddings, retriever, clock, conn>>

\* LongFormMemorySystem(db_path, embedding_model=..., top_k=...) on the file
\* the store is kept in: MemoryStorage.__init__ opens a connection of its own
\* and starts with an empty embeddings dict, CREATE TABLE IF NOT EXISTS keeps
\* the rows of the file (every write was committed), and the counter, the
\* history and the metrics start afresh
NewSystem(rtr) ==
    /\ embeddings' = EmptyDict
    /\ turn_count' = 0
    /\ history' = <<>>
    /\ perf_metrics' = [total_extracted |-> 0, total_retrieved |-> 0]
    /\ retriever' = rtr
    /\ conn' = "open"
    /\ last' = [op |-> "init"]
    /\ UNCHANGED <<table, clock>>

\* system.close(), storage.close(): the connection is closed; a second close
\* closes a closed connection, which sqlite3 allows
Close ==
    /\ conn' = "closed"
    /\ last' = [op |-> "close"]
    /\ UNCHANGED <<table, embeddings, turn_count, history, perf_metrics, retriever, clock>>

\* MemoryExtractor(llm_client).extract_memories(user_msg, "", turn_num, use_llm);
\* each candidate reads the clock twice
ExtractMemories(llm_client, user_msg, turn_num, use_llm, pace) ==
    \E r \in {extract_memories(llm_client, user_msg, turn_num, use_llm, clock + pace.wait,
                                pace)} :
        /\ Followed(Reading(clock + pace.wait, pace, 2 * Len(r)))
        /\ clock' = Reading(clock + pace.wait, pace, 2 * Len(r))
        /\ last' = [op |-> "extract_memories", llm_client |-> llm_client,
                    user_msg |-> user_msg, turn_num |-> turn_num,
                    use_llm |-> use_llm, result |-> r]
        /\ UNCHANGED <<table, embeddings, turn_count, history, perf_metrics, retriever,
                       conn>>

\* MemoryExtractor(llm_client)._extract_with_llm(user_msg, "", turn_num),
\* called on its own
ExtractWithLlm(llm_client, user_msg, turn_num, pace) ==
    \E r \in {_extract_with_llm(llm_client, user_msg, turn_num, clock + pace.wait, pace)} :
        /\ Followed(Reading(clock + pace.wait, pace, 2 * Len(r)))
        /\ clock' = Reading(clock + pace.wait, pace, 2 * Len(r))
        /\ last' = [op |-> "_extract_with_llm", llm_client |-> llm_client,
                    user_msg |-> user_msg, turn_num |-> turn_num, result |-> r]
        /\ UNCHANGED <<table, embeddings, turn_count, history, perf_metrics, retriever,
                       conn>>

\* MemoryRetriever(storage, embedding_model)._score_relevance(mem, query, turn)
ScoreRelevance(embedding_model, mem, query, turn) ==
    /\ last' = [op |-> "_score_relevance", embedding_model |-> embedding_model,
                mem |-> mem, query |-> query, turn |-> turn,
                score |-> _score_relevance(mem, query, turn, embedding_model)]
    /\ UNCHANGED <<table, embeddings, turn_count, history, perf_metrics, retriever,
                   clock, conn>>

\* retriever._recency_score(mem, current_turn)
RecencyScore(mem, current_turn) ==
    /\ last' = [op |-> "_recency_score", mem |-> mem, current_turn |-> current_turn,
                score |-> _recency_score(mem, current_turn)]
    /\ UNCHANGED <<table, embeddings, turn_count, history, perf_metrics, retriever,
                   clock, conn>>

\* retriever._frequency_score(mem)
FrequencyScore(mem) ==
    /\ last' = [op |-> "_frequency_score", mem |-> mem, score |-> _frequency_score(mem)]
    /\ UNCHANGED <<table, embeddings, turn_count, history, perf_metrics, retriever,
                   clock, conn>>

AssistantMessages == { <<"o","k">> }

\* the messages whose ids have the same digits at the instants
CollisionMessages ==
    { <<"W","e","l","l"," ","I"," ","w","o","r","k"," ","a","t"," ","a","c","m","e">>, <<"M","y"," ","n","a","m","e"," ","i","s"," ","R","a","j","e","s","h"," ","a","n","d"," ","I"," ","p","r","e","f","e","r"," ","t","o"," ","c","o","m","m","u","n","i","c","a","t","e"," ","i","n"," ","K","a","n","n","a","d","a",".">> }

\* the calls of the store, and the retriever called at turn MaxTurn
StoreStep ==
    \/ \E memory \in Samples : Save(memory)
    \/ \E memory_id \in KnownIds : Get(memory_id)
    \/ \E active_only \in BOOLEAN : GetAll(active_only)
    \/ \E memory_id \in KnownIds, turn_num \in TurnNumbers : MarkAccessed(memory_id, turn_num)
    \/ \E memory_id \in KnownIds : Deactivate(memory_id)
    \/ \E query \in Queries, args \in RetrieveArgs :
            Retrieve(query, MaxTurn, args.filter_types, args.min_confidence)

\* the calls of process_turn
TurnStep ==
    \E user_msg \in Messages, assistant_msg \in AssistantMessages,
       should_extract \in BOOLEAN, pace \in Paces \cup {StepAt(2), StepAt(4)} :
        ProcessTurn(user_msg, assistant_msg, should_extract, pace)

\* turns that find the clock at the instants, or are held up between two, or
\* follow the turn before them at once
CollisionStep ==
    \E user_msg \in CollisionMessages, assistant_msg \in AssistantMessages,
       pace \in PacesFrom(clock) \cup {Steady} :
        ProcessTurn(user_msg, assistant_msg, auto_extract, pace)

\* the calls of the orchestrator, and the system closed and constructed again
\* on the same file
SystemStep ==
    \/ TurnStep
    \/ Close
    \/ \E rtr \in Retrievers : NewSystem(rtr)
    \/ \E query \in Queries, args \in RetrieveArgs :
            RetrieveMemories(query, args.filter_types, args.min_confidence)
    \/ Reset

\* the messages of a short session: those that yield at most one candidate
SessionMessages == { m \in Messages : Len(CandidatesOf(m)) <= 1 }

\* the lists a caller passes to save_batch: the element the store cannot
\* save (Sample5) first, in the middle, and absent
Batches ==
    { <<>>, <<Sample5, Sample3>>, <<Sample1, Sample5, Sample3>> }

\* save_batch and process_turn on a store that may be closed at any moment,
\* and each of the other calls made once after close()
FailureStep ==
    \/ Close
    \/ \E memories \in Batches : SaveBatch(memories)
    \/ \E user_msg \in SessionMessages, assistant_msg \in AssistantMessages,
          pace \in Paces :
            ProcessTurn(user_msg, assistant_msg, auto_extract, pace)
    \/ /\ conn = "closed"
       /\ \/ \E memory \in {Sample1, Sample5} : Save(memory)
          \/ Get(Sample1.memory_id)
          \/ \E active_only \in BOOLEAN : GetAll(active_only)
          \/ MarkAccessed(Sample1.memory_id, MaxTurn)
          \/ Deactivate(Sample1.memory_id)
          \/ Retrieve(<<"R","a","j","e","s","h","?">>, MaxTurn, NoFilter, DefaultMinConf)
          \/ RetrieveMemories(<<"R","a","j","e","s","h","?">>, NoFilter, DefaultMinConf)

\* the calls of the extractor, made with each kind of client
ExtractionStep ==
    \/ \E llm_client \in Clients, user_msg \in ExtractionMessages,
          turn_num \in TurnNumbers, use_llm \in BOOLEAN, pace \in Paces \cup {Uneven} :
            ExtractMemories(llm_client, user_msg, turn_num, use_llm, pace)
    \/ \E llm_client \in Clients, user_msg \in ExtractionMessages,
          turn_num \in TurnNumbers, pace \in Paces :
            ExtractWithLlm(llm_client, user_msg, turn_num, pace)

\* turns of skipped messages and of one message with a fact, and the
\* extractor called on the skipped messages as process_turn calls it
CasualStep ==
    \/ \E user_msg \in SkippedMessages \cup {<<"W","e","l","l"," ","I"," ","w","o","r","k"," ","a","t"," ","a","c","m","e">>},
          assistant_msg \in AssistantMessages, pace \in Paces :
            ProcessTurn(user_msg, assistant_msg, auto_extract, pace)
    \/ \E user_msg \in SkippedMessages, pace \in Paces :
            ExtractMemories(NoClient, user_msg, turn_count, FALSE, pace)

\* the scores of the retriever, computed on their own
ScoringStep ==
    \/ \E call \in ScoreCalls(retriever.embedding_model), query \in ScoreQueries, turn \in {0, HalfLife} :
            ScoreRelevance(call[1], call[2], query, turn)
    \/ \E mem \in {Sample1, Sample3}, current_turn \in ScoreTurns :
            RecencyScore(mem, current_turn)
    \/ \E access_count \in 0..MaxCount :
            FrequencyScore([Sample1 EXCEPT !.access_count = access_count])

\* the store and its statistics, in a system that may be constructed again
\* on the file
StatsStep ==
    \/ \E memory \in Samples : Save(memory)
    \/ \E rtr \in Retrievers : NewSystem(rtr)
    \/ \E memory_id \in KnownIds : Deactivate(memory_id)
    \/ GetStats

\* the store filled and emptied, and the retriever: with its default arguments
\* at the first and at the last turn, with every filter at the last turn
RetrievalStep ==
    \/ \E memory \in Samples : Save(memory)
    \/ \E memory_id \in KnownIds : Deactivate(memory_id)
    \/ \E query \in Queries, current_turn \in TurnNumbers :
            Retrieve(query, current_turn, NoFilter, DefaultMinConf)
    \/ \E args \in RetrieveArgs :
            Retrieve(<<"R","a","j","e","s","h","?">>, MaxTurn, args.filter_types, args.min_confidence)

\* a session with resets over a store that also holds a memory with an
\* embedding, saved and deactivated by the caller
ResetStep ==
    \/ \E memory \in {Sample2} : Save(memory)
    \/ \E memory_id \in {Sample2.memory_id} : Deactivate(memory_id)
    \/ \E query \in {<<"R","a","j","e","s","h","?">>} : RetrieveMemories(query, NoFilter, DefaultMinConf)
    \/ \E user_msg \in {<<"W","e","l","l"," ","I"," ","w","o","r","k"," ","a","t"," ","a","c","m","e">>}, assistant_msg \in AssistantMessages,
          pace \in Paces :
            ProcessTurn(user_msg, assistant_msg, auto_extract, pace)
    \/ Reset

\* save, deactivate and get on a store the caller may close at any moment
LookupStep ==
    \/ Close
    \/ \E memory \in Samples : Save(memory)
    \/ \E memory_id \in KnownIds : Deactivate(memory_id)
    \/ \E memory_id \in KnownIds : Get(memory_id)

\* the retriever called directly and by process_turn over a store that may
\* hold a memory with a huge embedding
OverflowStep ==
    \/ \E memory \in {Sample1, Sample4, Sample6} : Save(memory)
    \/ \E query \in Queries : Retrieve(query, MaxTurn, NoFilter, DefaultMinConf)
    \/ \E user_msg \in {<<"R","a","j","e","s","h","?">>}, assistant_msg \in AssistantMessages :
            ProcessTurn(user_msg, assistant_msg, FALSE, Still)

Next ==
    \/ StoreStep \/ SystemStep \/ FailureStep \/ ExtractionStep \/ CasualStep
    \/ ScoringStep \/ StatsStep \/ RetrievalStep \/ ResetStep
    \/ CollisionStep \/ LookupStep \/ OverflowStep

Spec == Init /\ [][Next]_vars

\* the store and the retriever, called directly
SpecStore == Init /\ [][StoreStep]_vars

\* process_turn at the instants
SpecCollisions == Init /\ [][CollisionStep]_vars

\* the calls of process_turn
SpecTurns == Init /\ [][TurnStep]_vars

\* the calls of the orchestrator in a short session, reset() included
SessionStep ==
    \/ \E user_msg \in SessionMessages, assistant_msg \in AssistantMessages,
          pace \in Paces :
            ProcessTurn(user_msg, assistant_msg, auto_extract, pace)
    \/ \E query \in Queries : RetrieveMemories(query, NoFilter, DefaultMinConf)
    \/ Reset

\* the orchestrator alone: process_turn, retrieve_memories, reset
SpecSession == Init /\ [][SessionStep]_vars

\* save, deactivate, get and close()
SpecLookups == Init /\ [][LookupStep]_vars

\* the store and the orchestrator with close() among the calls
SpecFailures == Init /\ [][FailureStep]_vars

\* the extractor, called directly
SpecExtraction == Init /\ [][ExtractionStep]_vars

\* a session with short and casual messages
SpecCasual == Init /\ [][CasualStep]_vars

\* the scoring functions of the retriever
SpecScoring == Init /\ [][ScoringStep]_vars

\* save, deactivate and get_stats
SpecStats == Init /\ [][StatsStep]_vars

\* save, deactivate and retrieve
SpecRetrieval == Init /\ [][RetrievalStep]_vars

\* process_turn, retrieve_memories and reset over a store the caller fills
SpecReset == Init /\ [][ResetStep]_vars

\* save, retrieve and process_turn with an embedding model of huge vectors
SpecOverflow == InitOverflow /\ [][OverflowStep]_vars


(***************************************************************************)
(* Properties.                                                             *)
(***************************************************************************)
\* the rows of a table as a set
RowSet(tab) == Range(tab)

\* the ids of a sequence of memories, as a set
IdSet(mems) == Range(IdsOf(mems))

\* the one row of a table with an id
RowOf(tab, memory_id) == RowsOf(tab, memory_id)[1]

\* C1: in every turn record, no memory extracted in that turn is among the
\* memories retrieved in that turn: retrieval sees the store as it was before
\* the turn's extraction
C1_RetrievalBeforeExtraction ==
    \A i \in DOMAIN history :
        Range(history[i].retrieved_memories) \cap Range(history[i].extracted_memories) = {}

\* C2: every memory a retrieve call returns has, in the store after the call,
\* its access_count one more than before the call and its last_accessed_turn
\* equal to the call's current_turn
C2_RetrieveCountsAccess ==
    [][ last'.op = "retrieve" =>
            \A i \in DOMAIN last'.result :
                LET memory_id == last'.result[i].memory_id
                IN  /\ RowsOf(table, memory_id) # <<>>
                    /\ RowsOf(table', memory_id) # <<>>
                    /\ RowOf(table', memory_id).access_count
                            = RowOf(table, memory_id).access_count + 1
                    /\ RowOf(table', memory_id).last_accessed_turn
                            = Turn(last'.current_turn) ]_vars

\* a retrieve call returned a memory that had been accessed before, at an
\* earlier turn
C2_Witness ==
    /\ last.op = "retrieve"
    /\ \E i \in DOMAIN last.result :
            /\ last.result[i].access_count >= 1
            /\ last.result[i].last_accessed_turn # Turn(last.current_turn)
            /\ RowOf(table, last.result[i].memory_id).access_count
                    = last.result[i].access_count + 1

\* C3: a retrieve call returns no memory of a confidence below min_confidence
\* and, when filter_types is given, no memory of a type that is not in it,
\* the empty list included
C3_RespectsFilters ==
    last.op = "retrieve" =>
        \A i \in DOMAIN last.result :
            /\ last.result[i].confidence >= last.min_confidence
            /\ (~last.filter_types.none =>
                    last.result[i].type \in Range(last.filter_types.types))

\* C4: a retrieve call returns at most max_results memories and updates the
\* access statistics of at most max_results rows
C4_AtMostMaxResults ==
    [][ last'.op = "retrieve" =>
            /\ Len(last'.result) <= retriever.max_results
            /\ Len(table') = Len(table)
            /\ Cardinality({i \in DOMAIN table : table'[i] # table[i]})
                    <= retriever.max_results ]_vars

\* a retrieve call returned max_results memories out of more candidates
C4_Witness ==
    /\ last.op = "retrieve"
    /\ Len(last.result) = retriever.max_results
    /\ Len(filtered(get_all(table, embeddings, ActiveIds(table)), last.filter_types,
                    last.min_confidence)) > retriever.max_results

\* the fields of a row that only a save writes
SameContent(r, q) ==
    /\ r.memory_id = q.memory_id
    /\ r.type = q.type
    /\ r.key = q.key
    /\ r.value = q.value
    /\ r.source_turn = q.source_turn
    /\ r.confidence = q.confidence
    /\ r.created_at = q.created_at
    /\ r.metadata = q.metadata

\* C5: a deactivated memory is not in get_all(active_only=True), is not found
\* by get and is not returned by retrieve; a deactivate call changes nothing
\* of the row but its active flag; and the row stays in the table, inactive
\* and with the same content, until a save of that id succeeds
C5_DeactivatedIsHidden ==
    /\ [](\A i \in DOMAIN table :
            ~table[i].active =>
                /\ table[i].memory_id \notin IdSet(get_all(table, embeddings, ActiveIds(table)))
                /\ ~get(table, embeddings, table[i].memory_id).found
                /\ (last.op = "retrieve" =>
                        table[i].memory_id \notin IdSet(last.result)))
    /\ [][ /\ (last'.op = "deactivate" =>
                /\ Len(table') = Len(table)
                /\ \A i \in DOMAIN table :
                        table'[i] = IF table[i].memory_id = last'.memory_id
                                    THEN [table[i] EXCEPT !.active = FALSE]
                                    ELSE table[i])
            /\ \A i \in DOMAIN table :
                ~table[i].active =>
                    \/ /\ last'.op = "save"
                       /\ last'.ok
                       /\ last'.memory.memory_id = table[i].memory_id
                    \/ \E j \in DOMAIN table' :
                            /\ SameContent(table'[j], table[i])
                            /\ ~table'[j].active ]_vars

\* a retrieve call with room for more results and no type filter left out a
\* deactivated memory of sufficient confidence
C5_Witness ==
    /\ last.op = "retrieve"
    /\ last.filter_types.none
    /\ Len(last.result) < retriever.max_results
    /\ \E i \in DOMAIN table :
            /\ ~table[i].active
            /\ table[i].confidence >= last.min_confidence

\* C6: a process_turn call leaves every row of the table in the table, as
\* active as it was and with the same type, key, value, source_turn and
\* confidence; and every memory process_turn has stored is among the active
\* candidates of a retrieval with the default filters
C6_MemoriesPersist ==
    [][ /\ \A i \in DOMAIN table :
            \E j \in DOMAIN table' :
                /\ table'[j].memory_id = table[i].memory_id
                /\ table'[j].active = table[i].active
                /\ table'[j].type = table[i].type
                /\ table'[j].key = table[i].key
                /\ table'[j].value = table[i].value
                /\ table'[j].source_turn = table[i].source_turn
                /\ table'[j].confidence = table[i].confidence
        /\ IdSet(table')
                = IdSet(filtered(get_all(table', embeddings', ActiveIds(table')), NoFilter,
                                 DefaultMinConf)) ]_vars

\* the durable fields of a memory: all but the embedding
SameDurable(m, g) ==
    /\ SameContent(m, g)
    /\ m.last_accessed_turn = g.last_accessed_turn
    /\ m.access_count = g.access_count

\* C7: after a successful save, get of the saved id finds a memory equal to
\* the saved one in every durable field, the metadata included
C7_SaveGetRoundTrip ==
    (last.op = "save" /\ last.ok) =>
        LET g == get(table, embeddings, last.memory.memory_id)
        IN  g.found /\ SameDurable(last.memory, g.memory)

\* C8: get_all(active_only=False) returns every row of the table, the
\* deactivated ones included, and get_all(active_only=True) the active ones
C8_GetAllReturnsAll ==
    last.op = "get_all" =>
        IdSet(last.result)
            = {r.memory_id : r \in {q \in RowSet(table) : q.active \/ ~last.active_only}}

\* C9: every get call returns, on a closed store too: it finds a memory
\* exactly when the table has an active row of that id, the memory found is
\* that row's, an id never saved or deactivated is reported as not found
\* without raising, and the call leaves the store as it was
C9_GetFindsActiveRows ==
    [][ (last'.op = "get" \/ (last'.op = "raised" /\ last'.call = "get")) =>
            /\ last'.op = "get"
            /\ last'.result.found
                    <=> (\E r \in RowSet(table) :
                            r.memory_id = last'.memory_id /\ r.active)
            /\ (last'.result.found =>
                    /\ last'.result.memory.memory_id = last'.memory_id
                    /\ SameDurable(last'.result.memory,
                                   [RowOf(table, last'.memory_id) EXCEPT
                                       !.metadata = last'.result.memory.metadata]))
            /\ table' = table
            /\ embeddings' = embeddings ]_vars

\* C10: after a successful save the table has exactly one row of the saved
\* id; it is active and carries the saved memory's type, key, value,
\* source_turn, confidence, created_at, last_accessed_turn and access_count;
\* the rows of the other ids are as they were
C10_SaveReplaces ==
    [][ (last'.op = "save" /\ last'.ok) =>
            LET m == last'.memory
                rows == RowsOf(table', m.memory_id)
            IN  /\ Len(rows) = 1
                /\ rows[1].active
                /\ SameDurable(rows[1], [m EXCEPT !.metadata = rows[1].metadata])
                /\ {r \in RowSet(table') : r.memory_id # m.memory_id}
                        = {r \in RowSet(table) : r.memory_id # m.memory_id} ]_vars

\* a save replaced a deactivated row of the same id that held another content
C10_Witness ==
    /\ last.op = "save"
    /\ last.ok
    /\ last.before # <<>>
    /\ ~last.before[1].active
    /\ last.before[1].key # last.memory.key
    /\ RowOf(table, last.memory.memory_id).active

\* C11: every stored memory whose last_accessed_turn is set has
\* last_accessed_turn >= source_turn
C11_AccessedAfterSource ==
    \A i \in DOMAIN table :
        ~table[i].last_accessed_turn.none =>
            table[i].last_accessed_turn.turn >= table[i].source_turn

\* C12: the candidates one process_turn extracts have pairwise distinct ids,
\* and in a session of turns on an empty store each candidate saved is a row
\* of its own: the table has as many rows as candidates were saved
C12_UniqueIds ==
    /\ last.op = "process_turn" =>
            \A i, j \in DOMAIN last.result.extracted_memories :
                i # j => last.result.extracted_memories[i].memory_id
                            # last.result.extracted_memories[j].memory_id
    /\ Len(table) = perf_metrics.total_extracted

\* C13: turns only advance: a process_turn call uses a turn index greater
\* than the source_turn of every memory an earlier turn saved, and it leaves
\* the source_turn values of the table non-decreasing in save order
C13_TurnsOnlyAdvance ==
    [][ last'.op = "process_turn" =>
            /\ \A i \in DOMAIN table :
                    table[i].source_turn < last'.result.turn_id
            /\ \A i, j \in DOMAIN table' :
                    i < j => table'[i].source_turn <= table'[j].source_turn ]_vars

\* C14: no call to the store, to retrieve or to process_turn raises, the
\* calls made after close() included: a failure of the storage is returned
\* as False, as nothing found or as an empty result
C14_NothingRaises == last.op # "raised"

\* the elements of a batch whose save succeeds on the store as it is
Saves(memories) ==
    { i \in DOMAIN memories : conn = "open" /\ save(table, embeddings, memories[i]).ok }

\* C15: save_batch returns the number of its elements whose save succeeds;
\* each of them has its row afterwards, with the content of the last such
\* element of its id, whether or not an element before it failed; the rows of
\* the other ids are as they were; and process_turn adds to total_extracted
\* the number of memories its save_batch saved
C15_SaveBatchCounts ==
    [][ /\ last'.op = "save_batch" =>
            LET memories == last'.memories
            IN  /\ last'.saved = Cardinality(Saves(memories))
                /\ \A i \in Saves(memories) :
                        /\ Len(RowsOf(table', memories[i].memory_id)) = 1
                        /\ (\A j \in Saves(memories) :
                                j > i => memories[j].memory_id # memories[i].memory_id)
                            => SameDurable(RowOf(table', memories[i].memory_id),
                                   [memories[i] EXCEPT !.metadata =
                                       RowOf(table', memories[i].memory_id).metadata])
                /\ {r \in RowSet(table') :
                        \A i \in Saves(memories) : r.memory_id # memories[i].memory_id}
                     = {r \in RowSet(table) :
                        \A i \in Saves(memories) : r.memory_id # memories[i].memory_id}
        /\ last'.op = "process_turn" =>
            /\ perf_metrics'.total_extracted
                    = perf_metrics.total_extracted
                        + Cardinality(Saves(last'.result.extracted_memories))
            /\ \A i \in DOMAIN last'.result.extracted_memories :
                    RowsOf(table', last'.result.extracted_memories[i].memory_id) # <<>>
      ]_vars

\* a save_batch on an open store whose first element could not be saved and
\* whose later element was, and a turn has saved a memory before
C15_Witness ==
    /\ last.op = "save_batch"
    /\ conn = "open"
    /\ Len(last.memories) >= 2
    /\ 1 \notin Saves(last.memories)
    /\ last.saved = Len(last.memories) - 1
    /\ RowsOf(table, last.memories[2].memory_id) # <<>>
    /\ perf_metrics.total_extracted >= 1

\* C16: a mark_accessed call that succeeds leaves the row of its id with
\* last_accessed_turn equal to its turn and access_count one higher, every
\* other field of that row and every other row as before, no row added or
\* removed, the embeddings untouched; a call that fails changes nothing
C16_MarkAccessedCounts ==
    [][ last'.op = "mark_accessed" =>
            /\ embeddings' = embeddings
            /\ Len(table') = Len(table)
            /\ \A i \in DOMAIN table :
                    table'[i] =
                        IF last'.ok /\ table[i].memory_id = last'.memory_id
                        THEN [table[i] EXCEPT
                                !.last_accessed_turn = Turn(last'.turn_num),
                                !.access_count = table[i].access_count + 1]
                        ELSE table[i] ]_vars

\* mark_accessed has been called for a deactivated memory that had been
\* accessed before, at another turn, in a table with another row
C16_Witness ==
    /\ last.op = "mark_accessed"
    /\ Len(table) >= 2
    /\ \E i \in DOMAIN table :
            /\ table[i].memory_id = last.memory_id
            /\ ~table[i].active
            /\ table[i].access_count = MaxAccess
            /\ table[i].last_accessed_turn = Turn(last.turn_num)
            /\ table[i].source_turn > last.turn_num

\* C17: no call changes the source_turn or the confidence the table records
\* for an id: an id that has a row before and after a step has the same
\* source_turn and confidence in both
C17_SourceAndConfidenceFixed ==
    [][ \A i \in DOMAIN table, j \in DOMAIN table' :
            table'[j].memory_id = table[i].memory_id =>
                /\ table'[j].source_turn = table[i].source_turn
                /\ table'[j].confidence = table[i].confidence ]_vars

\* C18: the history is append-only: one step adds at most one record, at the
\* end, and never removes or changes a record, so that the history is as long
\* as the number of turns processed; the record a process_turn adds carries
\* its turn index and the ids it extracted and retrieved
C18_HistoryAppendOnly ==
    [][ /\ Len(history') >= Len(history)
        /\ SubSeq(history', 1, Len(history)) = history
        /\ Len(history') = turn_count'
        /\ last'.op = "process_turn" =>
                /\ Len(history') = Len(history) + 1
                /\ history'[Len(history')].turn_id = last'.result.turn_id
                /\ history'[Len(history')].extracted_memories
                        = IdsOf(last'.result.extracted_memories)
                /\ history'[Len(history')].retrieved_memories
                        = IdsOf(last'.result.retrieved_memories) ]_vars

\* Skipped, computed once for each message of the model
SkippedTable == [m \in Messages \cup ExtractionMessages |-> Skipped(m)]

IsSkipped(user_msg) == Cached(SkippedTable, user_msg, Skipped(user_msg))

\* C19: for a user message of fewer than 5 words, or whose lowercase form
\* contains a stoplisted phrase, extract_memories returns no candidate, and a
\* process_turn of such a message extracts nothing, records no extracted id,
\* adds no row to the table and leaves total_extracted and the embeddings as
\* they were
C19_SkippedYieldsNothing ==
    [][ /\ (last'.op = "extract_memories" /\ IsSkipped(last'.user_msg)) =>
                last'.result = <<>>
        /\ (last'.op = "process_turn"
                /\ IsSkipped(history'[Len(history')].user_message)) =>
                /\ last'.result.extracted_memories = <<>>
                /\ history'[Len(history')].extracted_memories = <<>>
                /\ IdsOf(table') = IdsOf(table)
                /\ embeddings' = embeddings
                /\ perf_metrics'.total_extracted = perf_metrics.total_extracted
      ]_vars

\* a turn whose message has 5 words or more, a stoplisted phrase and a match
\* of a fact pattern has been processed on a store that holds a memory
C19_Witness ==
    /\ last.op = "process_turn"
    /\ table # <<>>
    /\ Len(Split(history[Len(history)].user_message)) >= 5
    /\ Skipped(history[Len(history)].user_message)
    /\ CandidatesIn(Lower(history[Len(history)].user_message)) # <<>>
    /\ last.result.extracted_memories = <<>>

\* C20: every memory the extractor returns, from extract_memories with each
\* kind of client and from _extract_with_llm called on its own, has a
\* confidence between 0 and 1 (0 and 100 hundredths): 0.85 for a preference,
\* 0.8 for a fact, 0.75 for a commitment, which are the types it makes; and
\* its source_turn is the turn number the call was given
C20_ConfidenceByFamily ==
    last.op \in {"extract_memories", "_extract_with_llm"} =>
        \A i \in DOMAIN last.result :
            /\ last.result[i].confidence >= 0
            /\ last.result[i].confidence <= 100
            /\ last.result[i].type \in {PREFERENCE, FACT, COMMITMENT}
            /\ (last.result[i].type = PREFERENCE => last.result[i].confidence = 85)
            /\ (last.result[i].type = FACT => last.result[i].confidence = 80)
            /\ (last.result[i].type = COMMITMENT => last.result[i].confidence = 75)
            /\ last.result[i].source_turn = last.turn_num

\* extract_memories, asked for the external model and made with a client
\* that is false in a test, returned a preference, a fact and a commitment
\* for turn MaxTurn
C20_Witness ==
    /\ last.op = "extract_memories"
    /\ last.use_llm
    /\ last.llm_client = FalsyClient
    /\ last.turn_num = MaxTurn
    /\ {last.result[i].type : i \in DOMAIN last.result} = {PREFERENCE, FACT, COMMITMENT}

(***************************************************************************)
(* The result of retrieve.                                                 *)
(***************************************************************************)
\* the memories a retrieve call with the arguments of call chooses from, in
\* the order the store of tab returns them
FilteredOf(tab, call) ==
    filtered(get_all(tab, embeddings, ActiveIds(tab)), call.filter_types, call.min_confidence)

\* the composite score of a memory for the arguments of call
ScoreFor(mem, call) ==
    _score_relevance(mem, call.query, call.current_turn, retriever.embedding_model)

\* the filtered memories with their scores, in the order of the store
ScoredFor(tab, call) ==
    Scored(FilteredOf(tab, call), call.query, call.current_turn, retriever.embedding_model)

\* the rank of element k of a scored list: one more than the number of
\* elements of higher score, or of its score and before it in the list; a
\* score that is nan is neither
RankIn(sc, k) ==
    1 + Cardinality({j \in DOMAIN sc :
                        \/ FLess(sc[k].score, sc[j].score)
                        \/ sc[j].score = sc[k].score /\ ~IsNaN(sc[k].score) /\ j < k})

\* res holds the first elements of sc by rank, max_results at most, those of
\* positive score only, in the order of their rank
IsTopOf(res, sc, max_results) ==
    /\ Len(res) = Min(max_results, Cardinality({k \in DOMAIN sc : FLess(Zero, sc[k].score)}))
    /\ \A k \in DOMAIN sc :
            (~IsNaN(sc[k].score) /\ RankIn(sc, k) <= Len(res)) =>
                /\ res[RankIn(sc, k)] = sc[k].mem
                /\ FLess(Zero, sc[k].score)

\* C22: the result of retrieve is in the order of non-increasing composite
\* score and holds the max_results highest-scoring filtered memories of
\* positive score; memories of equal score come in the order the store
\* returned them, in the result and in the choice of which of them is inside
\* the first max_results.
C22_RankedResult ==
    [][ last'.op = "retrieve" =>
            \A sc \in {ScoredFor(table, last')} :
                IsTopOf(last'.result, sc, retriever.max_results) ]_vars

(***************************************************************************)
(* The scores.                                                             *)
(***************************************************************************)
\* the semantic factor applies to the memory of the last _score_relevance call
SemanticApplies == last.mem.embedding.present /\ last.embedding_model.truthy

\* the sum 0.30 keyword + 0.15 recency + 0.10 frequency + 0.15 confidence of
\* the last _score_relevance call
FourFactors ==
    sum(<< FMul(W_keyword, _keyword_match(last.query, last.mem)),
           FMul(W_recency, _recency_score(last.mem, last.turn)),
           FMul(W_frequency, _frequency_score(last.mem)),
           FMul(W_confidence, ConfidenceScore(last.mem.confidence)) >>, 4)

\* a billionth
Billionth == FloatOf(1, 1000 * 1000 * 1000)

\* |x - y|
Gap(x, y) == IF FLess(x, y) THEN FAdd(y, Negative(x)) ELSE FAdd(x, Negative(y))

\* x and y are the same number up to the rounding of the arithmetic: they are
\* no more than a billionth apart
Near(x, y) == ~FLess(Billionth, Gap(x, y))

\* 0.70, the sum of the weights without the semantic one
FourWeights == FloatOf(70, 100)

\* C23: the composite score is the weighted sum of the applicable factors
\* with the weights renormalized to sum to 1: without the semantic factor it
\* is (0.30 keyword + 0.15 recency + 0.10 frequency + 0.15 confidence) / 0.70,
\* with it the weights 0.30, 0.30, 0.15, 0.10, 0.15 are used as they are,
\* both up to the rounding of the float arithmetic; the score lies in [0, 1].
C23_Renormalized ==
    last.op = "_score_relevance" =>
        /\ IF SemanticApplies
           THEN Near(last.score,
                      FAdd(FourFactors,
                           FMul(W_semantic,
                                _semantic_match(last.query, last.mem,
                                                last.embedding_model))))
           ELSE Near(FMul(last.score, FourWeights), FourFactors)
        /\ ~IsNaN(last.score)
        /\ ~FLess(last.score, Zero)
        /\ ~FLess(One, last.score)

\* current_turn - source_turn of a _recency_score call
TurnsAgo(call) == call.current_turn - call.mem.source_turn

\* 0.49 and 0.51
HalfLess == FloatOf(49, 100)
HalfMore == FloatOf(51, 100)

\* C24: the recency score lies in [0, 1], also when current_turn is before
\* source_turn; it is 1.0 at turns_ago = 0 and within 0.01 of 0.5 at
\* turns_ago = 100; of two calls, the one with the larger turns_ago has no
\* larger score.
C24_RecencyDecays ==
    [][ last'.op = "_recency_score" =>
            /\ ~FLess(last'.score, Zero)
            /\ ~FLess(One, last'.score)
            /\ TurnsAgo(last') = 0 => last'.score = One
            /\ TurnsAgo(last') = 100 =>
                    /\ ~FLess(last'.score, HalfLess)
                    /\ ~FLess(HalfMore, last'.score)
            /\ (last.op = "_recency_score" /\ TurnsAgo(last') >= TurnsAgo(last))
                    => ~FLess(last.score, last'.score) ]_vars

\* the score of a memory one hundred turns old, which is not 1.0
C24_Witness ==
    /\ last.op = "_recency_score"
    /\ TurnsAgo(last) = 100
    /\ last.mem.source_turn > 0
    /\ FLess(last.score, One)

\* two _score_relevance calls for the same query and turn, the second on the
\* memory of the first after one more hit
OneMoreHit(before, after) ==
    /\ before.op = "_score_relevance"
    /\ after.op = "_score_relevance"
    /\ after.embedding_model = before.embedding_model
    /\ after.query = before.query
    /\ after.turn = before.turn
    /\ after.mem = [before.mem EXCEPT !.access_count = @ + 1]

\* 0.1
Tenth == FloatOf(1, 10)

\* C27: the frequency factor is 0.1 for access_count = 0 and otherwise
\* log(1 + access_count) / log(21) capped at 1.0, which it reaches at 20
\* accesses; it is non-decreasing in access_count; one more hit never
\* lowers the composite score of a memory for the same query and turn, raises
\* it up to the twentieth hit and leaves it as it is from then on.
C27_FrequencyFeedback ==
    [][ /\ last'.op = "_frequency_score" =>
            /\ last'.mem.access_count = 0 => last'.score = Tenth
            /\ last'.mem.access_count \in 1..19 =>
                    /\ last'.score = FDiv(Log1p[last'.mem.access_count], Log1p[20])
                    /\ FLess(last'.score, One)
            /\ last'.mem.access_count >= 20 => last'.score = One
            /\ (/\ last.op = "_frequency_score"
                /\ last'.mem.access_count >= last.mem.access_count)
                    => ~FLess(last'.score, last.score)
            \* log((1 + n)^2) = 2 log(1 + n)
            /\ (/\ last.op = "_frequency_score"
                /\ last.mem.access_count >= 1
                /\ last'.mem.access_count <= 20
                /\ 1 + last'.mem.access_count
                        = (1 + last.mem.access_count) * (1 + last.mem.access_count))
                    => Near(last'.score, FAdd(last.score, last.score))
        /\ OneMoreHit(last, last') =>
            /\ ~FLess(last'.score, last.score)
            /\ last'.mem.access_count <= 20 => FLess(last.score, last'.score)
            /\ last.mem.access_count >= 20 => last'.score = last.score ]_vars

(***************************************************************************)
(* The statistics of the store.                                            *)
(***************************************************************************)
\* the count a by_type dict gives for a type: a type without a key has none
CountOf(by_type, t) == IF t \in DOMAIN by_type THEN by_type[t] ELSE 0

RECURSIVE SumOfCounts(_, _)
SumOfCounts(by_type, types) ==
    IF types = <<>> THEN 0
    ELSE CountOf(by_type, Head(types)) + SumOfCounts(by_type, Tail(types))

\* the active rows of a table, of a type
ActiveOfType(tab, t) == {i \in DOMAIN tab : tab[i].active /\ tab[i].type = t}

\* what get_stats reports is what the table and the side-table hold
StatsMatch(stats, tab, emb) ==
    /\ stats.total_memories = Cardinality({i \in DOMAIN tab : tab[i].active})
    /\ DOMAIN stats.by_type \subseteq Range(all_types)
    /\ \A t \in Range(all_types) :
            CountOf(stats.by_type, t) = Cardinality(ActiveOfType(tab, t))
    /\ SumOfCounts(stats.by_type, all_types) = stats.total_memories
    /\ stats.vector_store_size
            = Cardinality({i \in DOMAIN tab : tab[i].memory_id \in DOMAIN emb})

\* the statistics of a table, with one of the averages get_stats can report
StatsOf(tab, emb) ==
    get_stats(tab, emb, CHOOSE a \in AverageConfidence(ActiveRows(tab)) : TRUE)

\* deactivating an active memory takes one from the total and from the count
\* of its type, and nothing from the other counts
OneLess(before, after, type) ==
    /\ after.total_memories = before.total_memories - 1
    /\ \A t \in Range(all_types) :
            CountOf(after.by_type, t)
                = CountOf(before.by_type, t) - (IF t = type THEN 1 ELSE 0)
    /\ after.vector_store_size = before.vector_store_size

\* C25: get_stats reports as total_memories the number of active records, in
\* by_type the counts of the active records of each type, which sum to
\* total_memories, and as vector_store_size the number of records with an
\* embedding in the side-table; deactivating an active memory lowers
\* total_memories and the count of its type by one.
C25_StatsCountActive ==
    [][ /\ last'.op = "get_stats" => StatsMatch(last'.stats, table', embeddings')
        /\ (/\ last'.op = "deactivate"
            /\ get(table, embeddings, last'.memory_id).found)
                => OneLess(StatsOf(table, embeddings), StatsOf(table', embeddings'),
                           get(table, embeddings, last'.memory_id).memory.type) ]_vars

\* statistics read with one memory active and the memory with the embedding
\* deactivated
C25_Witness ==
    /\ last.op = "get_stats"
    /\ last.stats.total_memories = 1
    /\ last.stats.vector_store_size = 1
    /\ \E i \in DOMAIN table : ~table[i].active /\ table[i].memory_id \in DOMAIN embeddings

\* a row as it was, the access statistics aside
SameButAccess(before, after) ==
    after = [before EXCEPT !.access_count = after.access_count,
                           !.last_accessed_turn = after.last_accessed_turn]

\* C28: a retrieve call changes only access_count and last_accessed_turn of
\* the memories it returns: the rows are the same ids in the same places,
\* the row of a returned memory differs in these two fields at most, every
\* other row (filtered out, outside the first max_results, deactivated) is
\* as it was, and the embeddings are as they were.
C28_RetrieveFrame ==
    [][ last'.op = "retrieve" =>
            /\ embeddings' = embeddings
            /\ DOMAIN table' = DOMAIN table
            /\ \A i \in DOMAIN table :
                    IF table[i].memory_id \in IdSet(last'.result)
                    THEN SameButAccess(table[i], table'[i])
                    ELSE table'[i] = table[i] ]_vars

\* a retrieve call returned one memory and left another active memory out
C28_Witness ==
    /\ last.op = "retrieve"
    /\ Len(last.result) = 1
    /\ \E i \in DOMAIN table :
            /\ table[i].active
            /\ table[i].memory_id \notin IdSet(last.result)
            /\ table[i].access_count = 0
    /\ \E i \in DOMAIN table :
            /\ table[i].memory_id \in IdSet(last.result)
            /\ table[i].access_count > 0
            /\ table[i].memory_id \in DOMAIN embeddings

(***************************************************************************)
(* The memories a retrieval hits.                                          *)
(***************************************************************************)
\* the rows of before that are one access further in after
HitRows(before, after) ==
    {i \in DOMAIN before :
        \E j \in DOMAIN after :
            /\ after[j].memory_id = before[i].memory_id
            /\ after[j].access_count = before[i].access_count + 1}

\* the memories process_turn chooses from: the active ones of the default
\* confidence, of any type
DefaultFiltered(tab) ==
    filtered(get_all(tab, embeddings, ActiveIds(tab)), NoFilter, DefaultMinConf)

\* C29: every memory that passes the hard filters has a strictly positive
\* composite score whatever the query, so retrieve returns exactly
\* min(max_results, number of filtered active memories) memories, and each
\* process_turn increments the access count of that many memories.
C29_EveryFilteredMemoryHit ==
    [][ /\ last'.op = "retrieve" =>
            \A sc \in {ScoredFor(table, last')} :
                /\ \A k \in DOMAIN sc : FLess(Zero, sc[k].score)
                /\ Len(last'.result) = Min(retriever.max_results, Len(sc))
        /\ last'.op = "process_turn" =>
            Cardinality(HitRows(table, table'))
                = Min(retriever.max_results, Len(DefaultFiltered(table))) ]_vars

(***************************************************************************)
(* The access count over the calls of the store.                           *)
(***************************************************************************)
\* C30: the stored access_count of a memory id is non-negative and never
\* decreases under any sequence of save, deactivate and retrieve calls,
\* re-saving a Memory value read before later retrieval hits included.
C30_AccessCountNeverFalls ==
    [][ \A i \in DOMAIN table :
            /\ table[i].access_count >= 0
            /\ \A j \in DOMAIN table' :
                    table'[j].memory_id = table[i].memory_id
                        => table'[j].access_count >= table[i].access_count ]_vars

(***************************************************************************)
(* reset and the store.                                                    *)
(***************************************************************************)
\* C31: reset clears only the orchestrator's in-memory state (turn counter to
\* 0, history, metrics) and leaves the store as it was: every row, its active
\* flag, its access statistics and its embedding are the same after reset as
\* before, so the memories of earlier turns are retrieved by the calls that
\* follow: a retrieve_memories or process_turn right after a reset retrieves
\* min(max_results, number of filtered active memories) of the stored memories.
C31_ResetKeepsStore ==
    [][ /\ last'.op = "reset" =>
            /\ turn_count' = 0
            /\ history' = <<>>
            /\ perf_metrics' = [total_extracted |-> 0, total_retrieved |-> 0]
            /\ table' = table
            /\ embeddings' = embeddings
            /\ get_all(table', embeddings', ActiveIds(table')) = get_all(table, embeddings, ActiveIds(table))
            /\ retriever' = retriever
            /\ conn' = conn
        /\ last.op = "reset" /\ last'.op = "retrieve" =>
            /\ Len(last'.result) = Min(retriever.max_results, Len(FilteredOf(table, last')))
            /\ IdSet(last'.result) \subseteq IdSet(table)
        /\ last.op = "reset" /\ last'.op = "process_turn" =>
            /\ Len(last'.result.retrieved_memories)
                    = Min(retriever.max_results, Len(DefaultFiltered(table)))
            /\ IdSet(last'.result.retrieved_memories) \subseteq IdSet(table) ]_vars

\* a retrieval after a reset, at turn 0 with an empty history, returned a
\* memory extracted in a turn before the reset
C31_Witness ==
    /\ last.op = "retrieve"
    /\ turn_count = 0
    /\ history = <<>>
    /\ \E k \in DOMAIN last.result, i \in DOMAIN table :
            /\ last.result[k].memory_id # Sample2.memory_id
            /\ table[i].memory_id = last.result[k].memory_id
            /\ table[i].last_accessed_turn = Turn(0)
    /\ \E i \in DOMAIN table : table[i].memory_id \in DOMAIN embeddings

(***************************************************************************)
(* The embedding of a memory saved again.                                  *)
(***************************************************************************)
\* C32: the embedding get(id) returns is the embedding of the most recent
\* save of that id: right after a successful save get returns the saved
\* memory's embedding, none if it had none, and vector_store_size counts the
\* id only if the saved memory had an embedding.
C32_EmbeddingOfLastSave ==
    [][ last'.op = "save" /\ last'.ok =>
            \A g \in {get(table', embeddings', last'.memory.memory_id)} :
                /\ g.found
                /\ g.memory.embedding = last'.memory.embedding
                /\ StatsOf(table', embeddings').vector_store_size
                    = Cardinality(DOMAIN embeddings \ {last'.memory.memory_id})
                      + (IF last'.memory.embedding.present THEN 1 ELSE 0) ]_vars

====
